---- MODULE Spec2Model ----
(***************************************************************************)
(* dev-swiss-army: the QR-code core (crates/dev-swiss-core/src/qrcode.rs). *)
(* The program is a stateless command-line tool: every operation of the    *)
(* core is a function of its arguments and of what the capabilities it     *)
(* calls (matrix encoder, file system, image codec, art service) answer.   *)
(* Each specification below calls the operations of one part of the core   *)
(* on inputs drawn from bounded sets and records what they return and      *)
(* which capabilities they touched.                                        *)
(***************************************************************************)
EXTENDS Integers, Sequences, FiniteSets, TLC

VARIABLES
    pc,             \* the operation that ran last ("start" before any)
    overflowChecks, \* build profile: TRUE = integer overflow panics (debug),
                    \*                FALSE = it wraps modulo 2^32 (release)
    config,         \* QrConfig handed to generate_qr
    encodeRet,      \* what the external encode capability answers when invoked
    encodeLog,      \* invocations of the external encode capability, in order
    qrRet,          \* value returned by generate_qr
    colorIn,        \* argument of parse_color (a sequence of characters)
    colorRet,       \* value returned by parse_color
    qr,             \* the matrix (QrCode) the rendering operations work on
    imageConfig,    \* ImageConfig of the last rendering call
    image,          \* the raster last produced / mutated in place
    logoConfig,     \* LogoConfig of the last overlay_logo call
    opRet,          \* value returned by the last compositing operation
    fsLog,          \* paths handed to image::open, in order
    locals,         \* local values computed by the last compositing operation
    bgIn,           \* the background given to the last call: a path for
                    \* overlay_on_background, the art service's answer for
                    \* generate_ai_qr
    netLog,         \* requests sent to the art service, in order
    aiFeature,      \* build feature "ai-generation": TRUE = compiled in
    args,           \* arguments of the last command (QrCodeArgs)
    events,         \* what the last command did, in order: capability calls,
                    \* lines printed, files written, process exit
    termOut,        \* text returned by render_to_terminal, a sequence of rows
    pwConfig,       \* PasswordConfig handed to generate_password
    rng,            \* values the random generator yields, in order
    pwRet,          \* value returned by generate_password
    cvConfig,       \* ConvertConfig handed to convert
    disk,           \* the files on disk: path -> content
    cvRet           \* value returned by convert

vars == <<pc, overflowChecks, config, encodeRet, encodeLog, qrRet, colorIn,
          colorRet, qr, imageConfig, image, logoConfig, opRet, fsLog, locals,
          bgIn, netLog, aiFeature, args, events, termOut, pwConfig, rng, pwRet,
          cvConfig, disk, cvRet>>

\* the state of the qrcode core, of the commands, of the password generator
\* and of the converter
coreVars == <<config, encodeRet, encodeLog, qrRet, colorIn, colorRet, qr,
              imageConfig, image, logoConfig, opRet, fsLog, locals, bgIn,
              netLog>>
commandVars == <<args, events, termOut>>
passwordVars == <<pwConfig, rng, pwRet>>
convertVars == <<cvConfig, disk, cvRet>>

Nil == [tag |-> "Nil"]

\* Before any operation: nothing has been called, no capability touched.
NothingCalled ==
    /\ pc = "start"
    /\ config = Nil /\ encodeRet = Nil /\ encodeLog = <<>> /\ qrRet = Nil
    /\ colorIn = Nil /\ colorRet = Nil
    /\ qr = Nil /\ imageConfig = Nil /\ image = Nil /\ logoConfig = Nil
    /\ opRet = Nil /\ fsLog = <<>> /\ locals = Nil
    /\ bgIn = Nil /\ netLog = <<>>
    /\ args = Nil /\ events = <<>> /\ termOut = Nil
    /\ pwConfig = Nil /\ rng = <<>> /\ pwRet = Nil
    /\ cvConfig = Nil /\ cvRet = Nil

\* The core built in either profile, with the art adapter compiled in.
InitIdle ==
    /\ NothingCalled
    /\ overflowChecks \in BOOLEAN
    /\ aiFeature = TRUE
    /\ disk = Nil

(***************************************************************************)
(* Results: Ok(v) / Err(QrError).                                          *)
(***************************************************************************)
Ok(v) == [tag |-> "Ok", val |-> v]
Err(kind, msg) == [tag |-> "Err", err |-> kind, msg |-> msg]
\* a panic (process abort) is not a returned value
Panic(why) == [tag |-> "Panic", why |-> why]

\* str::contains on strings
Contains(s, sub) ==
    \E i \in 1..(Len(s) - Len(sub) + 1) : SubSeq(s, i, i + Len(sub) - 1) = sub

(***************************************************************************)
(* Matrix Generator                                                        *)
(***************************************************************************)
ErrorCorrectionLevel == {"Low", "Medium", "Quartile", "High"}

to_qrcode_level(level) ==
    CASE level = "Low" -> "L"
      [] level = "Medium" -> "M"
      [] level = "Quartile" -> "Q"
      [] level = "High" -> "H"

\* Module counts of the symbols the encoder produces, 21 + 4 * (version - 1):
\* here versions 1 and 2.
ModuleCounts == {21, 25}

\* A matrix is its module count and the data it carries (seed); see IsDark.
Matrices == [width : ModuleCounts, seed : {1, 2}]

\* Error texts of the external encoder (Display of its error type), plus one
\* longer text that only contains the capacity phrase.
EncodeErrors == {"data too long", "invalid version", "unsupported character set",
                 "invalid ECI designator", "invalid character",
                 "encode: data too long for version 40"}

EncodeAnswers == {Ok(m) : m \in Matrices} \cup {Err("External", e) : e \in EncodeErrors}

Contents == {"", "a", "test", "https://example.com"}

QrConfigs == [content : Contents, error_correction : ErrorCorrectionLevel]

\* generate_qr without its emptiness check
generate_qr_nocheck(cfg, enc) ==
    [ret |-> IF enc.tag = "Ok" THEN enc
             ELSE IF Contains(enc.msg, "data too long")
                  THEN Err("ContentTooLarge", "")
                  ELSE Err("EncodingFailed", enc.msg),
     calls |-> <<[content |-> cfg.content,
                  ec_level |-> to_qrcode_level(cfg.error_correction)]>>]

\* generate_qr classifying every encoder failure as ContentTooLarge
generate_qr_allTooLarge(cfg, enc) ==
    IF cfg.content = ""
    THEN [ret |-> Err("EmptyContent", ""), calls |-> <<>>]
    ELSE [ret |-> IF enc.tag = "Ok" THEN enc ELSE Err("ContentTooLarge", ""),
          calls |-> <<[content |-> cfg.content,
                       ec_level |-> to_qrcode_level(cfg.error_correction)]>>]

\* generate_qr(config): ret is the returned value, calls the invocations of
\* QrCode::with_error_correction_level it made; enc is that capability's answer.
generate_qr(cfg, enc) ==
    IF cfg.content = ""
    THEN [ret |-> Err("EmptyContent", ""), calls |-> <<>>]
    ELSE [ret |-> IF enc.tag = "Ok" THEN enc
                  ELSE IF Contains(enc.msg, "data too long")
                       THEN Err("ContentTooLarge", "")
                       ELSE Err("EncodingFailed", enc.msg),
          calls |-> <<[content |-> cfg.content,
                       ec_level |-> to_qrcode_level(cfg.error_correction)]>>]

(***************************************************************************)
(* Color Resolver                                                          *)
(* A text is a sequence of characters.  A character is a one-letter string *)
(* when it is printable ASCII or one of "\t", "\n", "\r", "\f"; any other  *)
(* character is the name of its code point, "U+" and four upper-case       *)
(* hexadecimal digits ("U+00E9" is e acute, "U+212A" the Kelvin sign).     *)
(***************************************************************************)
Chars(s) == [i \in 1..Len(s) |-> SubSeq(s, i, i)]

HexUpper == "0123456789ABCDEF"

HexDigitValue ==
    [d \in {SubSeq(HexUpper, i, i) : i \in 1..16} |->
        (CHOOSE i \in 1..16 : SubSeq(HexUpper, i, i) = d) - 1]

RECURSIVE hex_value(_)
hex_value(s) ==
    IF s = "" THEN 0
    ELSE 16 * hex_value(SubSeq(s, 1, Len(s) - 1)) + HexDigitValue[SubSeq(s, Len(s), Len(s))]

\* The code point of a named character, and the name of a code point
CodePoint(c) == hex_value(SubSeq(c, 3, Len(c)))
CharOf(v) ==
    LET d(k) == SubSeq(HexUpper, k + 1, k + 1)
    IN "U+" \o d(v \div 4096) \o d((v \div 256) % 16) \o d((v \div 16) % 16) \o d(v % 16)

\* char::len_utf8: the UTF-8 length of a character
ByteLen(c) ==
    IF Len(c) = 1 THEN 1
    ELSE LET v == CodePoint(c) IN
         IF v < 128 THEN 1 ELSE IF v < 2048 THEN 2 ELSE IF v < 65536 THEN 3 ELSE 4

\* char::is_whitespace: the code points with the White_Space property
WhiteSpaceCodePoints ==
    (9..13) \cup {32, 133, 160, 5760} \cup (8192..8202) \cup {8232, 8233, 8239, 8287, 12288}
is_whitespace(c) ==
    IF Len(c) = 1 THEN c \in {" ", "\t", "\n", "\r", "\f"}
    ELSE CodePoint(c) \in WhiteSpaceCodePoints

\* char::to_ascii_lowercase
AsciiLowercase ==
    LET upper == "ABCDEFGHIJKLMNOPQRSTUVWXYZ"
        lower == "abcdefghijklmnopqrstuvwxyz"
    IN [c \in {SubSeq(upper, i, i) : i \in 1..26} |->
           LET i == CHOOSE k \in 1..26 : SubSeq(upper, k, k) = c
           IN SubSeq(lower, i, i)]
to_ascii_lowercase_char(c) == IF c \in DOMAIN AsciiLowercase THEN AsciiLowercase[c] ELSE c

\* The code points whose lower case is defined below: Basic Latin, Latin-1
\* Supplement, Latin Extended-A, General Punctuation, and the combining dot
\* above, the Ogham space mark, the Kelvin and Angstrom signs and the
\* ideographic space.
LowercaseRepertoire == (0..383) \cup (8192..8303) \cup {775, 5760, 8490, 8491, 12288}

\* char::to_lowercase: the lower case of one character, one or two
\* characters long (Unicode lower-case mapping with SpecialCasing)
to_lowercase_char(c) ==
    IF Len(c) = 1 THEN <<to_ascii_lowercase_char(c)>>
    ELSE LET v == CodePoint(c) IN
         CASE v \in (192..222) \ {215} -> <<CharOf(v + 32)>>
           [] v = 304 -> <<"i", "U+0307">>
           [] v = 376 -> <<"U+00FF">>
           [] v \in (256..303) \cup (306..311) \cup (330..375) /\ v % 2 = 0 -> <<CharOf(v + 1)>>
           [] v \in (313..328) \cup (377..382) /\ v % 2 = 1 -> <<CharOf(v + 1)>>
           [] v = 8490 -> <<"k">>
           [] v = 8491 -> <<"U+00E5">>
           [] v \in LowercaseRepertoire
              /\ v \notin (192..222) \ {215}
              /\ v \notin {304, 376, 8490, 8491}
              /\ ~(v \in (256..303) \cup (306..311) \cup (330..375) /\ v % 2 = 0)
              /\ ~(v \in (313..328) \cup (377..382) /\ v % 2 = 1) -> <<c>>

\* str::to_lowercase: the lower case of every character, concatenated
RECURSIVE to_lowercase(_)
to_lowercase(t) ==
    IF t = <<>> THEN <<>> ELSE to_lowercase_char(Head(t)) \o to_lowercase(Tail(t))

\* str::trim: drop the whitespace at both ends
trim(t) ==
    LET keep == {i \in 1..Len(t) : ~is_whitespace(t[i])} IN
    IF keep = {} THEN <<>>
    ELSE LET lo == CHOOSE i \in keep : \A j \in keep : i <= j
             hi == CHOOSE i \in keep : \A j \in keep : j <= i
         IN SubSeq(t, lo, hi)

\* str::strip_prefix('#').unwrap_or(color)
strip_hash(t) == IF Len(t) > 0 /\ t[1] = "#" THEN Tail(t) ELSE t

\* str::len: the length in bytes
RECURSIVE byte_len(_)
byte_len(t) == IF t = <<>> THEN 0 ELSE ByteLen(Head(t)) + byte_len(Tail(t))

\* str::is_char_boundary(n)
is_char_boundary(t, n) == \E k \in 0..Len(t) : byte_len(SubSeq(t, 1, k)) = n

\* &t[a..b] for char boundaries a <= b: the characters starting in [a, b)
slice(t, a, b) ==
    LET first == CHOOSE k \in 0..Len(t) : byte_len(SubSeq(t, 1, k)) = a
        last == CHOOSE k \in 0..Len(t) : byte_len(SubSeq(t, 1, k)) = b
    IN SubSeq(t, first + 1, last)

HexDigits == "0123456789abcdef"

\* char::to_digit(16); -1 when the character is no digit
to_digit16(c) ==
    LET l == to_ascii_lowercase_char(c) IN
    IF ByteLen(c) = 1 /\ \E i \in 1..Len(HexDigits) : SubSeq(HexDigits, i, i) = l
    THEN (CHOOSE i \in 1..Len(HexDigits) : SubSeq(HexDigits, i, i) = l) - 1
    ELSE -1

\* u8::from_str_radix(t, 16) on a text of at most two bytes; -1 stands for
\* Err.  An unsigned parse accepts one leading '+' (not alone) and no '-'.
from_str_radix16(t) ==
    IF t = <<>> THEN -1
    ELSE LET digits == IF t[1] = "+" THEN Tail(t) ELSE t IN
         IF digits = <<>> \/ \E i \in 1..Len(digits) : to_digit16(digits[i]) < 0
         THEN -1
         ELSE IF Len(digits) = 1 THEN to_digit16(digits[1])
              ELSE 16 * to_digit16(digits[1]) + to_digit16(digits[2])

\* parse_color(color)
parse_color(input) ==
    LET color == trim(input)
        name == to_lowercase(color)
        hex == strip_hash(color)
        invalid == Err("InvalidColor", color)
    IN
    IF name = Chars("black") THEN Ok(<<0, 0, 0>>)
    ELSE IF name = Chars("white") THEN Ok(<<255, 255, 255>>)
    ELSE IF name = Chars("red") THEN Ok(<<255, 0, 0>>)
    ELSE IF name = Chars("green") THEN Ok(<<0, 255, 0>>)
    ELSE IF name = Chars("blue") THEN Ok(<<0, 0, 255>>)
    ELSE IF byte_len(hex) # 6 THEN invalid
    ELSE IF ~is_char_boundary(hex, 2) THEN Panic("byte index 2 is not a char boundary")
    ELSE LET r == from_str_radix16(slice(hex, 0, 2)) IN
    IF r < 0 THEN invalid
    ELSE IF ~is_char_boundary(hex, 4) THEN Panic("byte index 4 is not a char boundary")
    ELSE LET g == from_str_radix16(slice(hex, 2, 4)) IN
    IF g < 0 THEN invalid
    ELSE LET b == from_str_radix16(slice(hex, 4, 6)) IN
    IF b < 0 THEN invalid
    ELSE Ok(<<r, g, b>>)

\* Inputs: optional whitespace, optional '#', then a colour name in some
\* letter case, a text from the tests, or any text of at most MaxColorLen
\* characters over ColorAlphabet; and the named texts between any two of
\* WidePads (whitespace of one, two and three bytes, and the zero width
\* space U+200B, which is no whitespace).
MaxColorLen == 6
ColorAlphabet == {"a", "F", "+", "U+00E9"}
NamedTexts ==
    {Chars(s) : s \in {"black", "white", "red", "green", "blue", "BLACK", "White",
                       "rEd", "GREEN", "bLuE", "ff5500", "FF5500", "00ff7f",
                       "not-a-color", "invalid", "12345", "1234567", "-1-2-3",
                       "gggggg", "blac", "blackk", "#00000"}}
    \cup {Chars("blac") \o <<"U+212A">>, Chars("BLAC") \o <<"U+212A">>,
          <<"U+212A", "U+212A">>, <<"a", "a", "U+212A", "a">>,
          <<"U+00C9">>, <<"U+0130">>, <<"U+0130", "a", "a", "a", "a">>,
          <<"a", "U+2003", "a", "a">>, Chars("wh") \o <<"U+0130">> \o Chars("te")}
ColorTexts(maxLen) == UNION {[1..n -> ColorAlphabet] : n \in 0..maxLen} \cup NamedTexts
ColorPads == {<<>>, <<" ">>, <<"U+00A0">>}
WidePads == ColorPads \cup {<<"\t">>, <<"\n">>, <<"\r", "\n">>, <<"\f">>, <<"U+000B">>,
                            <<"U+0085">>, <<"U+2003">>, <<"U+3000">>, <<"U+200B">>}
ColorInputs(maxLen) ==
    {l \o h \o t \o r : l \in {<<>>, <<" ">>}, h \in {<<>>, <<"#">>},
                        t \in ColorTexts(maxLen), r \in ColorPads}
    \cup {l \o t \o r : l \in WidePads, t \in NamedTexts, r \in WidePads}

InitColor == InitIdle /\ overflowChecks = TRUE

ParseColor ==
    /\ pc = "start"
    /\ \E input \in ColorInputs(MaxColorLen) :
          /\ colorIn' = input
          /\ colorRet' = parse_color(input)
    /\ pc' = "parse_color"
    /\ UNCHANGED <<overflowChecks, config, encodeRet, encodeLog, qrRet, qr,
                   imageConfig, image, logoConfig, opRet, fsLog, locals,
                   bgIn, netLog>>
    /\ UNCHANGED <<aiFeature, commandVars, passwordVars, convertVars>>

NextColor == ParseColor
SpecColor == InitColor /\ [][NextColor]_vars

\* What the colour syntax admits: a text that, without the whitespace around
\* it, is one of the five names in any letter case, or six hexadecimal
\* characters after an optional '#'.
IsHexChar(c) == \E i \in 1..16 : SubSeq("0123456789abcdef", i, i) = to_ascii_lowercase_char(c)
HexVal(c) == (CHOOSE i \in 1..16 : SubSeq("0123456789abcdef", i, i) = to_ascii_lowercase_char(c)) - 1
NamedColor(t) ==
    CASE t = Chars("black") -> <<0, 0, 0>>
      [] t = Chars("white") -> <<255, 255, 255>>
      [] t = Chars("red") -> <<255, 0, 0>>
      [] t = Chars("green") -> <<0, 255, 0>>
      [] t = Chars("blue") -> <<0, 0, 255>>
      [] OTHER -> <<>>
SixHex(t) == Len(t) = 6 /\ \A i \in 1..6 : IsHexChar(t[i])
ColorOf(input) ==
    LET t == trim(input)
        h == IF Len(t) > 0 /\ t[1] = "#" THEN SubSeq(t, 2, Len(t)) ELSE t
    IN IF NamedColor(to_lowercase(t)) # <<>> THEN NamedColor(to_lowercase(t))
       ELSE IF SixHex(h)
            THEN <<16 * HexVal(h[1]) + HexVal(h[2]), 16 * HexVal(h[3]) + HexVal(h[4]),
                   16 * HexVal(h[5]) + HexVal(h[6])>>
            ELSE <<>>

\* C2: parse_color succeeds on exactly the admitted texts (a name, or an
\* optional '#' and six hexadecimal characters) and returns the named triple
\* or the three byte pairs in R, G, B order.
C2_AcceptsExactlyNamesAndHex ==
    pc = "parse_color" =>
        /\ colorRet.tag = "Ok" <=> ColorOf(colorIn) # <<>>
        /\ colorRet.tag = "Ok" => colorRet.val = ColorOf(colorIn)

\* C3: every text parse_color does not accept makes it return
\* InvalidColor carrying the original input; it never aborts.
C3_RejectsWithInvalidColor ==
    (pc = "parse_color" /\ colorRet.tag # "Ok") =>
        colorRet = Err("InvalidColor", colorIn)

(***************************************************************************)
(* Raster Renderer                                                         *)
(***************************************************************************)
Max(a, b) == IF a >= b THEN a ELSE b
Min(a, b) == IF a <= b THEN a ELSE b

\* Colour of module (x, y) of a matrix, 0 <= x, y < width: the three finder
\* patterns of a QR symbol, and data modules that depend on the seed.
IsDark(m, x, y) ==
    LET w == m.width
        finder(cx, cy) ==
            /\ cx <= x /\ x < cx + 7 /\ cy <= y /\ y < cy + 7
            /\ \/ x \in {cx, cx + 6} \/ y \in {cy, cy + 6}
               \/ (cx + 2 <= x /\ x <= cx + 4 /\ cy + 2 <= y /\ y <= cy + 4)
        inFinder(cx, cy) == cx <= x /\ x < cx + 8 /\ cy <= y /\ y < cy + 8
    IN IF inFinder(0, 0) \/ inFinder(w - 8, 0) \/ inFinder(0, w - 8)
       THEN finder(0, 0) \/ finder(w - 7, 0) \/ finder(0, w - 7)
       ELSE (x * m.seed + y * (m.seed + 1)) % 3 = 0

\* Modules of quiet zone on each side that QrCode::render attaches to a
\* (non-micro) symbol when quiet_zone(true) is set.
QuietZoneModules == 4

MaxScale == 2
ColorPairs == {[dark |-> <<0, 0, 0>>, light |-> <<255, 255, 255>>],
               [dark |-> <<255, 85, 0>>, light |-> <<0, 0, 255>>]}
ImageConfigs ==
    {[scale |-> s, dark_color |-> c.dark, light_color |-> c.light] :
        s \in 0..MaxScale, c \in ColorPairs}

\* A raster is its width, its height and its pixel buffer, the sequence of
\* its pixels in row-major order: pixel (x, y) is px[y * w + x + 1].
Pixels(w, h) == 1..(w * h)
At(img, x, y) == img.px[y * img.w + x + 1]

\* the coordinates of the pixel at index p of a buffer of width w
XOf(p, w) == (p - 1) % w
YOf(p, w) == (p - 1) \div w

\* ImageBuffer::from_raw(width, height, buf): the raster of the pixels buf,
\* buf taken as a sequence
from_raw(w, h, buf) == [w |-> w, h |-> h, px |-> buf \o <<>>]

\* render_to_image without the quiet zone
render_to_image_noQuietZone(q, cfg) ==
    LET mw == Max(cfg.scale, 1)
        real == q.width * mw
    IN from_raw(real, real,
                [p \in Pixels(real, real) |->
                   IF IsDark(q, XOf(p, real) \div mw, YOf(p, real) \div mw)
                   THEN cfg.dark_color ELSE cfg.light_color])

\* render_to_image with the two colours exchanged
render_to_image_swapped(q, cfg) ==
    LET mw == Max(cfg.scale, 1)
        qz == QuietZoneModules
        real == (q.width + 2 * qz) * mw
    IN from_raw(real, real,
                [p \in Pixels(real, real) |->
                   LET x == XOf(p, real) \div mw
                       y == YOf(p, real) \div mw
                   IN IF /\ qz <= x /\ x < q.width + qz
                         /\ qz <= y /\ y < q.width + qz
                         /\ IsDark(q, x - qz, y - qz)
                      THEN cfg.light_color ELSE cfg.dark_color])

\* render_to_image(qr, config): quiet_zone(true), module_dimensions(scale,
\* scale) (a dimension of 0 is taken as 1), the two colours, build().
render_to_image(q, cfg) ==
    LET mw == Max(cfg.scale, 1)
        qz == QuietZoneModules
        real == (q.width + 2 * qz) * mw
    IN from_raw(real, real,
                [p \in Pixels(real, real) |->
                   LET x == XOf(p, real) \div mw
                       y == YOf(p, real) \div mw
                   IN IF /\ qz <= x /\ x < q.width + qz
                         /\ qz <= y /\ y < q.width + qz
                         /\ IsDark(q, x - qz, y - qz)
                      THEN cfg.dark_color ELSE cfg.light_color])

RenderToImage ==
    /\ pc = "start"
    /\ \E q \in Matrices, cfg \in ImageConfigs :
          /\ qr' = q
          /\ imageConfig' = cfg
          /\ image' = render_to_image(q, cfg)
    /\ pc' = "render_to_image"
    /\ UNCHANGED <<overflowChecks, config, encodeRet, encodeLog, qrRet, colorIn,
                   colorRet, logoConfig, opRet, fsLog, locals,
                   bgIn, netLog>>
    /\ UNCHANGED <<aiFeature, commandVars, passwordVars, convertVars>>

(***************************************************************************)
(* File system and image codec                                             *)
(***************************************************************************)
LogoFill == <<200, 30, 30>>
BackgroundFill == <<10, 120, 200>>

\* The files of the run: images (their size and content), a file that is no
\* image, and a path at which there is nothing.
LogoPaths == {"logo.png", "wide.png", "tall.png", "notes.txt", "missing.png"}
BackgroundPaths == {"bg30.png", "bg60.png", "bg81.png", "bg82.png", "bg96.png",
                    "bg190.png", "notes.txt", "missing.png"}
Files ==
    [path \in LogoPaths \cup BackgroundPaths |->
        CASE path = "logo.png" -> [kind |-> "image", w |-> 64, h |-> 64, fill |-> LogoFill]
          [] path = "wide.png" -> [kind |-> "image", w |-> 120, h |-> 40, fill |-> LogoFill]
          [] path = "tall.png" -> [kind |-> "image", w |-> 30, h |-> 90, fill |-> LogoFill]
          [] path = "bg30.png" -> [kind |-> "image", w |-> 30, h |-> 50, fill |-> BackgroundFill]
          [] path = "bg60.png" -> [kind |-> "image", w |-> 60, h |-> 45, fill |-> BackgroundFill]
          [] path = "bg81.png" -> [kind |-> "image", w |-> 81, h |-> 81, fill |-> BackgroundFill]
          [] path = "bg82.png" -> [kind |-> "image", w |-> 82, h |-> 100, fill |-> BackgroundFill]
          [] path = "bg96.png" -> [kind |-> "image", w |-> 96, h |-> 90, fill |-> BackgroundFill]
          [] path = "bg190.png" -> [kind |-> "image", w |-> 190, h |-> 190, fill |-> BackgroundFill]
          [] path = "notes.txt" -> [kind |-> "notimage"]
          [] path = "missing.png" -> [kind |-> "missing"]]

UniformImage(w, h, fill) == from_raw(w, h, [p \in Pixels(w, h) |-> fill])

\* image::open(path)
image_open(path) ==
    LET f == Files[path] IN
    CASE f.kind = "image" -> Ok([w |-> f.w, h |-> f.h, fill |-> f.fill])
      [] f.kind = "notimage" -> Err("ImageError", "The image format could not be determined")
      [] f.kind = "missing" -> Err("ImageError", "No such file or directory (os error 2)")

\* DynamicImage::resize(nwidth, nheight, filter): the largest size of the same
\* aspect ratio that fits in nwidth x nheight, each side rounded to the
\* nearest pixel and at least 1.
resize_dimensions(width, height, nwidth, nheight) ==
    LET useW == nwidth * height <= nheight * width
        nw == IF useW THEN nwidth ELSE (2 * width * nheight + height) \div (2 * height)
        nh == IF useW THEN (2 * height * nwidth + width) \div (2 * width) ELSE nheight
    IN <<Max(nw, 1), Max(nh, 1)>>

\* a - b in u32, then / 2: panics on underflow when overflow checks are on,
\* wraps modulo 2^32 when they are off ((2^32 - d) / 2 = 2^31 - ceil(d / 2)).
sub_half(a, b, checks) ==
    IF a >= b THEN Ok((a - b) \div 2)
    ELSE IF checks THEN Panic("attempt to subtract with overflow")
    ELSE Ok(2147483647 - (((b - a + 1) \div 2) - 1))

\* imageops::overlay(bottom, top, x, y): top's pixels replace bottom's where
\* top, placed at (x, y), covers bottom; the rest of top is clipped away.
overlay(bottom, top, x, y) ==
    from_raw(bottom.w, bottom.h,
             [p \in Pixels(bottom.w, bottom.h) |->
                LET px == XOf(p, bottom.w)
                    py == YOf(p, bottom.w)
                IN IF /\ px >= x /\ px - x < top.w
                      /\ py >= y /\ py - y < top.h
                   THEN At(top, px - x, py - y)
                   ELSE bottom.px[p]])

(***************************************************************************)
(* Logo Compositor                                                         *)
(***************************************************************************)
\* size_percent is a u8; every path with the sizes in range, and the sizes
\* out of range with a logo that exists and one that does not.
LogoConfigs ==
    [path : LogoPaths, size_percent : {5, 20, 30}]
    \cup [path : {"logo.png", "missing.png"}, size_percent : {0, 4, 31, 50, 255}]

\* the steps of overlay_logo after the size check
overlay_logo_load(img, lc, checks, halve) ==
    LET opened == image_open(lc.path) IN
    IF opened.tag # "Ok"
    THEN [ret |-> Err("InvalidLogoPath", <<lc.path, opened.msg>>), image |-> img,
          opens |-> <<lc.path>>, locals |-> Nil]
    ELSE
    LET logo == opened.val
        \* (qr_width as f32 * size_percent as f32 / 100.0) as u32; exact
        \* while qr_width * size_percent < 2^24
        max_logo_size == (img.w * lc.size_percent) \div 100
        dims == IF <<max_logo_size, max_logo_size>> = <<logo.w, logo.h>>
                THEN <<logo.w, logo.h>>
                ELSE resize_dimensions(logo.w, logo.h, max_logo_size, max_logo_size)
        logo_resized == UniformImage(dims[1], dims[2], logo.fill)
        x == IF halve THEN sub_half(img.w, dims[1], checks)
             ELSE Ok(img.w - dims[1])
        y == IF halve THEN sub_half(img.h, dims[2], checks)
             ELSE Ok(img.h - dims[2])
        loc == [max_logo_size |-> max_logo_size, logo_width |-> dims[1],
                logo_height |-> dims[2]]
    IN IF x.tag = "Panic"
       THEN [ret |-> x, image |-> img, opens |-> <<lc.path>>, locals |-> loc]
       ELSE IF y.tag = "Panic"
       THEN [ret |-> y, image |-> img, opens |-> <<lc.path>>, locals |-> loc]
       ELSE [ret |-> Ok(<<>>), image |-> overlay(img, logo_resized, x.val, y.val),
             opens |-> <<lc.path>>,
             locals |-> [max_logo_size |-> max_logo_size, logo_width |-> dims[1],
                         logo_height |-> dims[2], x |-> x.val, y |-> y.val]]

\* overlay_logo that opens the logo before it looks at size_percent
overlay_logo_openFirst(img, lc, checks) ==
    LET r == overlay_logo_load(img, lc, checks, TRUE) IN
    IF r.ret.tag = "Ok" /\ (lc.size_percent < 5 \/ lc.size_percent > 30)
    THEN [ret |-> Err("LogoTooLarge", ""), image |-> img, opens |-> r.opens,
          locals |-> Nil]
    ELSE r

\* overlay_logo that places the logo at (width - logoWidth, height - logoHeight)
overlay_logo_notCentred(img, lc, checks) ==
    IF lc.size_percent < 5 \/ lc.size_percent > 30
    THEN [ret |-> Err("LogoTooLarge", ""), image |-> img, opens |-> <<>>,
          locals |-> Nil]
    ELSE overlay_logo_load(img, lc, checks, FALSE)

\* overlay_logo(qr_image, logo_config): ret is the returned value, image the
\* raster after the call, opens the paths it handed to image::open.
overlay_logo(img, lc, checks) ==
    IF lc.size_percent < 5 \/ lc.size_percent > 30
    THEN [ret |-> Err("LogoTooLarge", ""), image |-> img, opens |-> <<>>,
          locals |-> Nil]
    ELSE overlay_logo_load(img, lc, checks, TRUE)

OverlayLogo ==
    /\ pc = "render_to_image"
    /\ \E lc \in LogoConfigs :
          LET r == overlay_logo(image, lc, overflowChecks) IN
          /\ logoConfig' = lc
          /\ opRet' = r.ret
          /\ image' = r.image
          /\ fsLog' = fsLog \o r.opens
          /\ locals' = r.locals
    /\ pc' = "overlay_logo"
    /\ UNCHANGED <<overflowChecks, config, encodeRet, encodeLog, qrRet, colorIn,
                   colorRet, qr, imageConfig, bgIn, netLog>>
    /\ UNCHANGED <<aiFeature, commandVars, passwordVars, convertVars>>

\* No subtraction of the raster operations underflows (C8), so the build
\* profile makes no difference to them: the debug build is explored, where
\* an underflow would show as a panic.
InitRaster == InitIdle /\ overflowChecks = TRUE
NextRaster == RenderToImage \/ OverlayLogo
SpecRaster == InitRaster /\ [][NextRaster]_vars

\* C4: a size_percent outside [5, 30] makes overlay_logo return LogoTooLarge
\* without opening any file (also when the logo path does not exist) and
\* without touching the raster; inside [5, 30] it never returns LogoTooLarge.
C4_LogoSizeCheckedBeforeIO ==
    pc = "overlay_logo" =>
        IF logoConfig.size_percent < 5 \/ logoConfig.size_percent > 30
        THEN /\ opRet = Err("LogoTooLarge", "")
             /\ fsLog = <<>>
             /\ image = render_to_image(qr, imageConfig)
        ELSE ~(opRet.tag = "Err" /\ opRet.err = "LogoTooLarge")

C4_Witness ==
    /\ pc = "overlay_logo"
    /\ logoConfig = [path |-> "missing.png", size_percent |-> 31]
    /\ opRet = Err("LogoTooLarge", "")
    /\ fsLog = <<>>

\* C6 (as stated): at scale s >= 1 the raster of a matrix of m modules is
\* (m + 2) * s pixels wide and high.
C6_SizeWithOneModuleQuietZone ==
    (pc = "render_to_image" /\ imageConfig.scale >= 1) =>
        /\ image.w = (qr.width + 2) * imageConfig.scale
        /\ image.h = (qr.width + 2) * imageConfig.scale

\* C6 (amended): at scale s >= 1 the raster of a matrix of m modules is
\* (m + 8) * s pixels wide and high: the quiet zone is 4 modules on each side.
C6_SizeWithFourModuleQuietZone ==
    (pc = "render_to_image" /\ imageConfig.scale >= 1) =>
        /\ image.w = (qr.width + 8) * imageConfig.scale
        /\ image.h = (qr.width + 8) * imageConfig.scale
        /\ DOMAIN image.px = 1..(image.w * image.h)

C6_Witness ==
    /\ pc = "render_to_image"
    /\ imageConfig.scale = 2 /\ qr.width = 21
    /\ image.w = 58 /\ image.h = 58

\* The raster is made of uniform blocks of edge s: every pixel has the colour
\* of its block's first pixel, a block inside the matrix area is dark or light
\* as its module is, and the outer ring of width s is light.
BlocksOfEdge(s) ==
    /\ \A x \in 0..(image.w - 1), y \in 0..(image.h - 1) :
          At(image, x, y) = At(image, (x \div s) * s, (y \div s) * s)
    /\ \A x \in 0..(image.w - 1), y \in 0..(image.h - 1) :
          (\/ x < s \/ x >= image.w - s
           \/ y < s \/ y >= image.h - s) =>
              At(image, x, y) = imageConfig.light_color
    /\ LET off == (image.w - qr.width * s) \div 2 IN
       \A x \in 0..(qr.width - 1), y \in 0..(qr.width - 1) :
          At(image, off + x * s, off + y * s) =
             IF IsDark(qr, x, y) THEN imageConfig.dark_color
             ELSE imageConfig.light_color

\* C7 (as stated): every raster render_to_image produces has dimensions that
\* are a multiple of scale, consists of scale x scale blocks of the module's
\* colour, and has an outer ring of width scale in the light colour.
C7_BlocksOfScale ==
    pc = "render_to_image" =>
        /\ \E k \in 0..image.w : image.w = k * imageConfig.scale
        /\ \E k \in 0..image.h : image.h = k * imageConfig.scale
        /\ BlocksOfEdge(imageConfig.scale)

\* C7 (amended): the same for every scale >= 1; at scale 0 the renderer draws
\* modules of 1 x 1 pixel, so the blocks and the ring have edge max(scale, 1).
C7_BlocksOfEffectiveScale ==
    pc = "render_to_image" =>
        LET s == IF imageConfig.scale >= 1 THEN imageConfig.scale ELSE 1 IN
        /\ image.w % s = 0 /\ image.h % s = 0
        /\ image.w > 0
        /\ BlocksOfEdge(s)

C7_Witness ==
    /\ pc = "render_to_image"
    /\ imageConfig.scale = 2
    /\ imageConfig.dark_color = <<255, 85, 0>>
    /\ At(image, 8, 8) = <<255, 85, 0>>
    /\ At(image, 9, 9) = <<255, 85, 0>>
    /\ At(image, 7, 7) = <<0, 0, 255>>

\* C8: a successful overlay_logo resizes the logo to fit the square of edge
\* floor(rasterWidth * sizePercent / 100) keeping its aspect ratio (each side
\* to the nearest pixel and at least 1), centres it at ((w - lw) / 2, (h - lh) / 2) with both
\* subtractions non-negative and the rectangle inside the raster, and
\* changes no pixel outside that rectangle; for sizePercent in [5, 30] the
\* call never aborts.
C8_LogoCentredInsideRaster ==
    pc = "overlay_logo" =>
        /\ (logoConfig.size_percent >= 5 /\ logoConfig.size_percent <= 30) =>
              opRet.tag # "Panic"
        /\ opRet.tag = "Ok" =>
              LET before == render_to_image(qr, imageConfig)
                  edge == (before.w * logoConfig.size_percent) \div 100
                  lw == locals.logo_width
                  lh == locals.logo_height
                  fw == Files[logoConfig.path].w
                  fh == Files[logoConfig.path].h
                  x == (before.w - lw) \div 2
                  y == (before.h - lh) \div 2
                  d == lw * fh - lh * fw
              IN /\ locals.max_logo_size = edge
                 /\ 1 <= lw /\ lw <= edge /\ 1 <= lh /\ lh <= edge
                 /\ lw = edge \/ lh = edge
                 /\ \/ 2 * (IF d < 0 THEN -d ELSE d) <= Max(fw, fh)
                    \/ Min(lw, lh) = 1
                 /\ before.w >= lw /\ before.h >= lh
                 /\ locals.x = x /\ locals.y = y
                 /\ x + lw <= before.w /\ y + lh <= before.h
                 /\ image.w = before.w /\ image.h = before.h
                 /\ \A px \in 0..(before.w - 1), py \in 0..(before.h - 1) :
                       At(image, px, py) =
                          IF /\ x <= px /\ px < x + lw
                             /\ y <= py /\ py < y + lh
                          THEN LogoFill ELSE At(before, px, py)

C8_Witness ==
    /\ pc = "overlay_logo"
    /\ opRet.tag = "Ok"
    /\ logoConfig = [path |-> "wide.png", size_percent |-> 30]
    /\ image.w = 58
    /\ locals.logo_width = 17 /\ locals.logo_height = 6
    /\ locals.x = 20 /\ locals.y = 26

(***************************************************************************)
(* Background Compositor                                                   *)
(***************************************************************************)
Margin == 20

\* the steps of overlay_on_background after the background is loaded;
\* minScale is the least scale that is not refused
overlay_on_background_fit(q, background_path, image_config, checks, bg, minScale) ==
    LET opens == <<background_path>>
        background == UniformImage(bg.w, bg.h, bg.fill)
        \* bg_width.min(bg_height).saturating_sub(margin * 2)
        available_size == Max(Min(bg.w, bg.h) - Margin * 2, 0)
        scale == available_size \div q.width
    IN IF scale < minScale
       THEN [ret |-> Err("BackgroundTooSmall", ""), opens |-> opens,
             locals |-> [scale |-> scale]]
       ELSE
       LET qr_image == render_to_image(q, [image_config EXCEPT !.scale = scale])
           x == sub_half(bg.w, qr_image.w, checks)
           y == sub_half(bg.h, qr_image.h, checks)
           loc == [scale |-> scale, qr_width |-> qr_image.w, qr_height |-> qr_image.h]
       IN IF x.tag = "Panic" THEN [ret |-> x, opens |-> opens, locals |-> loc]
          ELSE IF y.tag = "Panic" THEN [ret |-> y, opens |-> opens, locals |-> loc]
          ELSE [ret |-> Ok(overlay(background, qr_image, x.val, y.val)),
                opens |-> opens,
                locals |-> [scale |-> scale, qr_width |-> qr_image.w,
                            qr_height |-> qr_image.h, x |-> x.val, y |-> y.val]]

\* overlay_on_background that accepts a scale of 1
overlay_on_background_scale1(q, background_path, image_config, checks) ==
    LET opened == image_open(background_path) IN
    IF opened.tag # "Ok"
    THEN [ret |-> Err("InvalidLogoPath", <<background_path, opened.msg>>),
          opens |-> <<background_path>>, locals |-> Nil]
    ELSE overlay_on_background_fit(q, background_path, image_config, checks,
                                   opened.val, 1)

\* overlay_on_background(qr, background_path, image_config): ret is the
\* returned value, opens the paths handed to image::open.
overlay_on_background(q, background_path, image_config, checks) ==
    LET opened == image_open(background_path) IN
    IF opened.tag # "Ok"
    THEN [ret |-> Err("InvalidLogoPath", <<background_path, opened.msg>>),
          opens |-> <<background_path>>, locals |-> Nil]
    ELSE overlay_on_background_fit(q, background_path, image_config, checks,
                                   opened.val, 2)

OverlayOnBackground ==
    /\ pc = "start"
    /\ \E q \in Matrices, path \in BackgroundPaths, cfg \in ImageConfigs :
       \E r \in {overlay_on_background(q, path, cfg, overflowChecks)} :
          /\ qr' = q
          /\ imageConfig' = cfg
          /\ bgIn' = path
          /\ opRet' = IF r.ret.tag = "Ok" THEN Ok(<<>>) ELSE r.ret
          /\ image' = IF r.ret.tag = "Ok" THEN r.ret.val ELSE Nil
          /\ fsLog' = fsLog \o r.opens
          /\ locals' = r.locals
    /\ pc' = "overlay_on_background"
    /\ UNCHANGED <<overflowChecks, config, encodeRet, encodeLog, qrRet, colorIn,
                   colorRet, logoConfig, netLog>>
    /\ UNCHANGED <<aiFeature, commandVars, passwordVars, convertVars>>

(***************************************************************************)
(* Art Background Adapter                                                  *)
(***************************************************************************)
\* 40 pixels kept free on each side instead of 40 in all
AiMarginEachSide == 2 * 40

\* the pixels of min(bg_width, bg_height) the art adapter keeps free
AiMargin == 40

\* What the art service and the decoding of its payload can answer: the
\* request fails in transport, a non-success status, a body that is no
\* {image: ...} JSON, a payload that is no base64, bytes that are no image,
\* or an image (aspect ratio 1:1) of some size.
ApiAnswers ==
    {[kind |-> "transport"], [kind |-> "status", code |-> 401],
     [kind |-> "status", code |-> 500], [kind |-> "badjson"],
     [kind |-> "badbase64"], [kind |-> "badimage"]}
    \cup {[kind |-> "image", w |-> n, h |-> n] : n \in {30, 50, 82, 190}}

Prompts == {"neon city"}
ApiKeys == {"sk-test"}

\* (2^32 - d) / m for 0 < d: the quotient of a u32 difference that wrapped
\* (2^32 = 2 * 2147483647 + 2)
wrapped_div(d, m) ==
    2 * (2147483647 \div m) + ((2 * (2147483647 % m) + 2 - d) \div m)

\* k * n modulo 2^32 as 16-bit halves [hi, lo], for k < 2^8 and n < 2^32
wrapping_mul(k, n) ==
    LET lo == k * (n % 65536)
        hi == k * (n \div 65536) + (lo \div 65536)
    IN [hi |-> hi % 65536, lo |-> lo % 65536]

\* the steps of generate_ai_qr once the background is decoded; guarded says
\* whether a background with min(width, height) < 40 is refused
generate_ai_qr_fit(q, bg, checks, request, guarded) ==
    LET background == UniformImage(bg.w, bg.h, BackgroundFill)
        side == Min(bg.w, bg.h)
    IN
    IF side < AiMargin
    THEN \* bg_width.min(bg_height) - 40 underflows
         IF guarded
         THEN [ret |-> Err("ImageProcessingFailed", "background too small"),
               requests |-> request, locals |-> Nil]
         ELSE IF checks
         THEN [ret |-> Panic("attempt to subtract with overflow"),
               requests |-> request, locals |-> Nil]
         ELSE LET scale == wrapped_div(AiMargin - side, q.width)
                  \* the renderer's width * module width, wrapping as well
                  real == wrapping_mul(q.width + 2 * QuietZoneModules, scale)
              IN IF real.hi > 0
                 THEN \* a buffer of 3 * real^2 >= 3 * 2^32 bytes
                      [ret |-> Panic("memory allocation of the raster failed"),
                       requests |-> request,
                       locals |-> [scale |-> scale, wrapped |-> TRUE]]
                 ELSE [ret |-> Panic("raster drawn with a wrapped scale"),
                       requests |-> request,
                       locals |-> [scale |-> scale, wrapped |-> TRUE]]
    ELSE
    LET scale == (side - AiMargin) \div q.width
        qr_config == [scale |-> scale, dark_color |-> <<0, 0, 0>>,
                      light_color |-> <<255, 255, 255>>]
        qr_image == render_to_image(q, qr_config)
        x == sub_half(bg.w, qr_image.w, checks)
        y == sub_half(bg.h, qr_image.h, checks)
        loc == [scale |-> scale, qr_width |-> qr_image.w, qr_height |-> qr_image.h]
    IN IF x.tag = "Panic" THEN [ret |-> x, requests |-> request, locals |-> loc]
       ELSE IF y.tag = "Panic" THEN [ret |-> y, requests |-> request, locals |-> loc]
       ELSE [ret |-> Ok(overlay(background, qr_image, x.val, y.val)),
             requests |-> request,
             locals |-> [scale |-> scale, qr_width |-> qr_image.w,
                         qr_height |-> qr_image.h, x |-> x.val, y |-> y.val]]

\* the steps of generate_ai_qr from the request to the decoded background
generate_ai_qr_request(q, prompt, api_key, api, checks, guarded) ==
    LET full_prompt == "A QR code with artistic styling: " \o prompt
                       \o ". The QR code pattern should remain scannable."
        request == <<[prompt |-> full_prompt, output_format |-> "png",
                      aspect_ratio |-> "1:1", bearer |-> api_key]>>
        failed(msg) == [ret |-> Err("ImageProcessingFailed", msg),
                        requests |-> request, locals |-> Nil]
    IN CASE api.kind = "transport" -> failed("API request failed")
         [] api.kind = "status" -> failed(<<"API error", api.code>>)
         [] api.kind = "badjson" -> failed("Failed to parse response")
         [] api.kind = "badbase64" -> failed("Failed to decode image")
         [] api.kind = "badimage" -> failed("Failed to load image")
         [] api.kind = "image" ->
               generate_ai_qr_fit(q, [w |-> api.w, h |-> api.h], checks, request,
                                  guarded)

\* ai::generate_ai_qr(qr, prompt, api_key, image_config): ret is the returned
\* value, requests the requests sent to the art service; api is the
\* service's answer.
generate_ai_qr(q, prompt, api_key, image_config, api, checks) ==
    generate_ai_qr_request(q, prompt, api_key, api, checks, FALSE)

GenerateAiQr ==
    /\ pc = "start"
    /\ \E q \in Matrices, prompt \in Prompts, key \in ApiKeys,
          cfg \in ImageConfigs, api \in ApiAnswers :
       \E r \in {generate_ai_qr(q, prompt, key, cfg, api, overflowChecks)} :
          /\ qr' = q
          /\ imageConfig' = cfg
          /\ bgIn' = api
          /\ opRet' = IF r.ret.tag = "Ok" THEN Ok(<<>>) ELSE r.ret
          /\ image' = IF r.ret.tag = "Ok" THEN r.ret.val ELSE Nil
          /\ netLog' = netLog \o r.requests
          /\ locals' = r.locals
    /\ pc' = "generate_ai_qr"
    /\ UNCHANGED <<overflowChecks, config, encodeRet, encodeLog, qrRet, colorIn,
                   colorRet, logoConfig, fsLog>>
    /\ UNCHANGED <<aiFeature, commandVars, passwordVars, convertVars>>

NextCompose == OverlayOnBackground \/ GenerateAiQr
SpecCompose == InitIdle /\ [][NextCompose]_vars

\* C5: on a background that loads, overlay_on_background computes
\* scale = floor((min(bgWidth, bgHeight) - 2 * 20) / moduleCount) and returns
\* BackgroundTooSmall exactly when that scale is below 2: always when
\* min(width, height) < 40 + 2 * moduleCount (min(width, height) < 40
\* included), never when min(width, height) >= 40 + 2 * moduleCount.
C5_BackgroundTooSmallIffScaleBelow2 ==
    (pc = "overlay_on_background" /\ Files[bgIn].kind = "image") =>
        LET side == Min(Files[bgIn].w, Files[bgIn].h)
            scale == (side - 2 * 20) \div qr.width
            tooSmall == opRet = Err("BackgroundTooSmall", "")
        IN /\ tooSmall <=> scale < 2
           /\ side < 40 + 2 * qr.width => tooSmall
           /\ side >= 40 + 2 * qr.width => ~tooSmall
           /\ side >= 40 => locals.scale = scale
           /\ fsLog = <<bgIn>>

C5_Witness ==
    /\ pc = "overlay_on_background"
    /\ bgIn = "bg81.png" /\ qr.width = 21
    /\ locals.scale = 1
    /\ opRet = Err("BackgroundTooSmall", "")

\* C9: generate_ai_qr returns a RasterImage or ImageProcessingFailed and
\* nothing else: ImageProcessingFailed when the request, the status, the
\* JSON body, the base64 payload or the image decoding fails, and a
\* RasterImage for every decoded background, whatever its dimensions, with
\* no abort and no wrapped scale or offset.
C9_RasterOrImageProcessingFailed ==
    pc = "generate_ai_qr" =>
        IF bgIn.kind = "image"
        THEN opRet = Ok(<<>>) /\ image.w = bgIn.w /\ image.h = bgIn.h
        ELSE opRet.tag = "Err" /\ opRet.err = "ImageProcessingFailed"

GenerateQr ==
    /\ pc = "start"
    /\ \E cfg \in QrConfigs, enc \in EncodeAnswers :
          LET r == generate_qr(cfg, enc) IN
          /\ config' = cfg
          /\ encodeRet' = enc
          /\ qrRet' = r.ret
          /\ encodeLog' = encodeLog \o r.calls
    /\ pc' = "generate_qr"
    /\ UNCHANGED <<overflowChecks, colorIn, colorRet, qr, imageConfig, image,
                   logoConfig, opRet, fsLog, locals,
                   bgIn, netLog>>
    /\ UNCHANGED <<aiFeature, commandVars, passwordVars, convertVars>>

NextGenerate == GenerateQr
InitGenerate == InitIdle /\ overflowChecks = TRUE
SpecGenerate == InitGenerate /\ [][NextGenerate]_vars

\* C1: generate_qr on empty content returns EmptyContent at every
\* error-correction level and never invokes the encode capability.
C1_EmptyContentBeforeEncode ==
    (pc = "generate_qr" /\ config.content = "") =>
        (qrRet = Err("EmptyContent", "") /\ encodeLog = <<>>)

C1_Witness ==
    /\ pc = "generate_qr" /\ config.content = ""
    /\ config.error_correction = "Quartile"
    /\ encodeRet.tag = "Ok"
    /\ qrRet = Err("EmptyContent", "")

\* C10: a failure of the encode capability becomes ContentTooLarge when its
\* message contains "data too long" and EncodingFailed with the message
\* unchanged otherwise; non-empty content never yields EmptyContent, and the
\* encoder is asked exactly once, at the level given.
C10_EncodeFailureClassified ==
    (pc = "generate_qr" /\ config.content # "") =>
        /\ qrRet # Err("EmptyContent", "")
        /\ Len(encodeLog) = 1
        /\ encodeRet.tag = "Ok" => qrRet = encodeRet
        /\ encodeRet.tag = "Err" =>
              qrRet = IF \E i \in 1..Len(encodeRet.msg) :
                            \E j \in i..Len(encodeRet.msg) :
                               SubSeq(encodeRet.msg, i, j) = "data too long"
                      THEN Err("ContentTooLarge", "")
                      ELSE Err("EncodingFailed", encodeRet.msg)

C10_Witness ==
    /\ pc = "generate_qr" /\ config.content = "test"
    /\ encodeRet = Err("External", "invalid version")
    /\ qrRet = Err("EncodingFailed", "invalid version")

(***************************************************************************)
(* Terminal Renderer                                                       *)
(* The text is kept as its lines (the rows are joined with a line feed,    *)
(* and no glyph is a line feed); a line is a sequence of glyphs.           *)
(***************************************************************************)
\* unicode::Dense1x2: the value a canvas pixel of that colour holds
Dense1x2Value(c) == IF c = "Dark" THEN 1 ELSE 0

\* The glyph for two stacked pixels, at index top * 2 + bottom: space, lower
\* half block, upper half block, full block.
CODEPAGE == <<" ", "U+2584", "U+2580", "U+2588">>

\* The canvas of qr.render::<Dense1x2>(): one pixel per module, qz modules
\* of quiet zone on each side, dark modules in dark_color, all others in
\* light_color.
dense_canvas(q, qz, dark_color, light_color, x, y) ==
    IF /\ qz <= x /\ x < q.width + qz
       /\ qz <= y /\ y < q.width + qz
       /\ IsDark(q, x - qz, y - qz)
    THEN Dense1x2Value(dark_color) ELSE Dense1x2Value(light_color)

\* Canvas::into_image of Dense1x2: the rows are taken in pairs, a last row
\* without partner is drawn as top * 2
dense_into_image(q, qz, dark_color, light_color) ==
    LET width == q.width + 2 * qz
        lines == (width + 1) \div 2
    IN [l \in 1..lines |->
          [c \in 1..width |->
             LET top == dense_canvas(q, qz, dark_color, light_color, c - 1, 2 * l - 2)
                 bot == IF 2 * l - 1 < width
                        THEN dense_canvas(q, qz, dark_color, light_color, c - 1, 2 * l - 1)
                        ELSE 0
             IN CODEPAGE[top * 2 + bot + 1]]]

\* render_to_terminal that does not look at config.invert
render_to_terminal_noInvert(q, cfg) ==
    dense_into_image(q, IF cfg.quiet_zone THEN QuietZoneModules ELSE 0,
                     "Dark", "Light")

\* render_to_terminal(qr, config)
render_to_terminal(q, cfg) ==
    dense_into_image(q, IF cfg.quiet_zone THEN QuietZoneModules ELSE 0,
                     IF cfg.invert THEN "Light" ELSE "Dark",
                     IF cfg.invert THEN "Dark" ELSE "Light")

(***************************************************************************)
(* Command layer: dev-swiss qrcode (commands/qrcode.rs)                    *)
(* A run is the sequence of what the process did, in order: the core       *)
(* operations it called ("call"), the encoder invocations ("encode"),      *)
(* files opened ("open"), requests sent ("request"), files written         *)
(* ("write"), lines printed ("stdout", "stderr") and how it ended          *)
(* ("exit" with the status, or "panic").                                   *)
(***************************************************************************)
None == <<>>
Some(v) == <<v>>

Event(kind, what) == [kind |-> kind, what |-> what]

\* the errors that are no QrError: messages of run itself
UsageError(what) == [tag |-> "Err", err |-> what, msg |-> ""]

\* eprintln!("Error: {}", e); std::process::exit(1) -- or the panic that
\* ended the callee
fail(e) ==
    IF e.tag = "Panic" THEN <<Event("panic", e.why)>>
    ELSE <<Event("stderr", e), Event("exit", 1)>>

Events(kind, whats) == [i \in 1..Len(whats) |-> Event(kind, whats[i])]

\* Output paths: in the working directory; in a directory that does not
\* exist (File::create fails there); on a device without room (the file is
\* created, writing its content fails); with an extension that names no
\* image format.
OutputPaths == {"out.png", "nodir/out.png", "full/out.png", "out.txt"}
can_create(path) == path # "nodir/out.png"
can_write(path) == path # "full/out.png"

\* ImageFormat::from_path: the format the extension names, if any
known_format(path) == path # "out.txt"

\* what a write that failed leaves in the file it created: the beginning of
\* the content, possibly nothing
Partial == [partial |-> TRUE]

\* save_image(image, path), image.save(path): the format is taken from the
\* extension, then the file is created, then the image is encoded into it.
\* writes are the files written.
save_image(img, path) ==
    IF ~known_format(path)
    THEN [ret |-> Err("IoError", "Failed to save image: The image format could not be determined"),
          writes |-> <<>>]
    ELSE IF ~can_create(path)
    THEN [ret |-> Err("IoError", "Failed to save image: No such file or directory (os error 2)"),
          writes |-> <<>>]
    ELSE IF ~can_write(path)
    THEN [ret |-> Err("IoError", "Failed to save image: No space left on device (os error 28)"),
          writes |-> <<[path |-> path, data |-> Partial]>>]
    ELSE [ret |-> Ok(<<>>), writes |-> <<[path |-> path, data |-> img]>>]

\* std::fs::write(path, contents): the file is created, then the contents
\* are written into it
fs_write(path, contents) ==
    IF ~can_create(path)
    THEN [ret |-> UsageError("WriteFailed"), writes |-> <<>>]
    ELSE IF ~can_write(path)
    THEN [ret |-> UsageError("WriteFailed"),
          writes |-> <<[path |-> path, data |-> Partial]>>]
    ELSE [ret |-> Ok(<<>>), writes |-> <<[path |-> path, data |-> contents]>>]

\* render_to_svg(qr, config): the document, by what determines it
render_to_svg(q, image_config) ==
    [svg |-> q, quiet_zone |-> TRUE, dark |-> image_config.dark_color,
     light |-> image_config.light_color]

\* if let Err(e) = save_image(..) { report; exit(1) }  println!(saved)
save_and_report(img, output_path, saved) ==
    LET s == save_image(img, output_path) IN
    <<Event("call", "save_image")>> \o Events("write", s.writes)
    \o (IF s.ret.tag = "Ok"
        THEN <<Event("stdout", saved \o output_path), Event("exit", 0)>>
        ELSE fail(s.ret))

\* run, lines 226-243: the logo overlay when a logo is given, then the save
logo_and_save(a, checks, img, output_path, saved) ==
    IF a.logo # None
    THEN LET logo_config == [path |-> a.logo[1], size_percent |-> a.logo_size]
             r == overlay_logo(img, logo_config, checks)
         IN <<Event("call", "overlay_logo")>>
            \o Events("open", r.opens)
            \o (IF r.ret.tag = "Ok"
                THEN save_and_report(r.image, output_path, saved)
                ELSE fail(r.ret))
    ELSE save_and_report(img, output_path, saved)

\* run, Format::Png: lines 174-243; returns says whether the background
\* branch returns after its save (it does) or goes on to the logo
run_png_with(a, feature, checks, api, q, image_config, output_path, returns) ==
    IF feature /\ a.ai_prompt # None
    THEN IF a.api_key = None THEN fail(UsageError("ApiKeyRequired"))
         ELSE LET r == generate_ai_qr(q, a.ai_prompt[1], a.api_key[1],
                                      image_config, api, checks)
              IN <<Event("call", "generate_ai_qr")>>
                 \o Events("request", r.requests)
                 \o (IF r.ret.tag = "Ok"
                     THEN save_and_report(r.ret.val, output_path,
                                          "Saved AI-styled QR to ")
                     ELSE fail(r.ret))
    ELSE IF ~feature /\ a.ai_prompt # None
    THEN fail(UsageError("AiNotAvailable"))
    ELSE IF a.background # None
    THEN LET r == overlay_on_background(q, a.background[1], image_config, checks)
         IN <<Event("call", "overlay_on_background")>>
            \o Events("open", r.opens)
            \o (IF r.ret.tag # "Ok" THEN fail(r.ret)
                ELSE IF returns
                THEN save_and_report(r.ret.val, output_path,
                                     "Saved QR with background to ")
                ELSE logo_and_save(a, checks, r.ret.val, output_path,
                                   "Saved QR with background to "))
    ELSE <<Event("call", "render_to_image")>>
         \o logo_and_save(a, checks, render_to_image(q, image_config),
                          output_path, "Saved PNG to ")

\* run whose background branch goes on to the logo overlay
run_png_logoOnBackground(a, feature, checks, api, q, image_config, output_path) ==
    run_png_with(a, feature, checks, api, q, image_config, output_path, FALSE)

\* run, Format::Png: lines 174-243
run_png(a, feature, checks, api, q, image_config, output_path) ==
    run_png_with(a, feature, checks, api, q, image_config, output_path, TRUE)

\* run, Format::Png | Format::Svg: lines 127-247
run_file(a, feature, checks, api, q) ==
    IF a.output = None THEN fail(UsageError("OutputPathRequired"))
    ELSE
    LET output_path == a.output[1]
        dark_color == parse_color(a.dark_color)
        light_color == parse_color(a.light_color)
    IN IF dark_color.tag # "Ok"
       THEN <<Event("call", "parse_color")>> \o fail(dark_color)
       ELSE IF light_color.tag # "Ok"
       THEN <<Event("call", "parse_color"), Event("call", "parse_color")>>
            \o fail(light_color)
       ELSE
       LET image_config == [scale |-> a.scale, dark_color |-> dark_color.val,
                            light_color |-> light_color.val]
           parsed == <<Event("call", "parse_color"), Event("call", "parse_color")>>
       IN IF a.format = "Svg"
          THEN LET w == fs_write(output_path, render_to_svg(q, image_config))
               IN parsed \o <<Event("call", "render_to_svg")>>
                  \o Events("write", w.writes)
                  \o (IF w.ret.tag = "Ok"
                      THEN <<Event("stdout", "Saved SVG to " \o output_path),
                             Event("exit", 0)>>
                      ELSE fail(w.ret))
          ELSE parsed \o run_png(a, feature, checks, api, q, image_config,
                                 output_path)

\* run, lines 100-105: the level the matrix is generated at
upgraded_level(a) ==
    IF a.logo # None /\ a.error_correction \in {"Low", "Medium"}
    THEN "High" ELSE a.error_correction

\* run from line 107 on, error_correction being the level of lines 100-105
run_from(a, feature, checks, enc, api, error_correction) ==
    LET qr_config == [content |-> a.content, error_correction |-> error_correction,
                      quiet_zone |-> ~a.no_quiet_zone, invert |-> a.invert]
        g == generate_qr(qr_config, enc)
        generated == <<Event("call", "generate_qr")>> \o Events("encode", g.calls)
    IN IF g.ret.tag # "Ok" THEN generated \o fail(g.ret)
       ELSE IF a.format = "Terminal"
       THEN generated
            \o <<Event("call", "render_to_terminal"),
                 Event("stdout", render_to_terminal(g.ret.val, qr_config)),
                 Event("exit", 0)>>
       ELSE generated \o run_file(a, feature, checks, api, g.ret.val)

\* run with the upgrade of the error correction level left out
run_noUpgrade(a, feature, checks, enc, api) ==
    run_from(a, feature, checks, enc, api, a.error_correction)

\* run(args): enc is what the encoder answers, api what the art service
\* answers, feature whether the art adapter is compiled in.
run(a, feature, checks, enc, api) ==
    (IF upgraded_level(a) # a.error_correction
     THEN <<Event("stderr", [tag |-> "Note",
               msg |-> "Note: Using high error correction for logo overlay"])>>
     ELSE <<>>)
    \o run_from(a, feature, checks, enc, api, upgraded_level(a))

\* The command lines explored: every field at a value that exercises one of
\* the branches of run; fields a format does not read are left at one value.
RunColors ==
    {[dark |-> Chars("black"), light |-> Chars("white")],
     [dark |-> Chars("#ff5500"), light |-> Chars("blue")],
     [dark |-> Chars("zz"), light |-> Chars("white")],
     [dark |-> Chars("black"), light |-> <<"a", "U+00E9", "a", "a", "a">>]}

RunArts == {[ai_prompt |-> None, api_key |-> None],
            [ai_prompt |-> Some("neon city"), api_key |-> None],
            [ai_prompt |-> Some("neon city"), api_key |-> Some("sk-test")]}

QrCodeArgsOf(cs, fs, os, ecs, flags, ls, sizes, bgs, colors, arts) ==
    {[content |-> c, format |-> f, output |-> o, error_correction |-> ec,
      scale |-> 1, invert |-> inv, no_quiet_zone |-> nqz, logo |-> l,
      logo_size |-> sz, background |-> bg, dark_color |-> col.dark,
      light_color |-> col.light, ai_prompt |-> art.ai_prompt,
      api_key |-> art.api_key] :
        c \in cs, f \in fs, o \in os, ec \in ecs, inv \in flags,
        nqz \in flags, l \in ls, sz \in sizes, bg \in bgs, col \in colors,
        art \in arts}

\* Terminal runs; Svg runs; Png runs over the levels and logos; Png runs
\* over the compositions, colours and outputs.
QrCodeArgs ==
    QrCodeArgsOf({"", "test"}, {"Terminal"}, {None}, ErrorCorrectionLevel,
                 BOOLEAN, {None, Some("logo.png")}, {20}, {None},
                 {[dark |-> Chars("zz"), light |-> Chars("white")]},
                 {[ai_prompt |-> None, api_key |-> None]})
    \cup QrCodeArgsOf({"test"}, {"Svg"}, {None} \cup {Some(o) : o \in OutputPaths},
                      {"Medium"}, {FALSE}, {None, Some("logo.png")}, {50}, {None},
                      RunColors, {[ai_prompt |-> None, api_key |-> None]})
    \cup QrCodeArgsOf({"", "test"}, {"Png"}, {Some("out.png")},
                      ErrorCorrectionLevel, {FALSE},
                      {None, Some("logo.png"), Some("missing.png")}, {20, 31},
                      {None, Some("bg82.png")},
                      {[dark |-> Chars("black"), light |-> Chars("white")]},
                      {[ai_prompt |-> None, api_key |-> None]})
    \cup QrCodeArgsOf({"test"}, {"Png"}, {None} \cup {Some(o) : o \in OutputPaths},
                      {"Medium"}, {FALSE}, {None, Some("logo.png")}, {20, 31},
                      {None, Some("bg82.png"), Some("missing.png")},
                      RunColors, RunArts)

\* what the encoder and the art service answer during a run
RunEncodeAnswers == {Ok([width |-> 21, seed |-> 1]),
                     Err("External", "data too long"),
                     Err("External", "invalid version")}
RunApiAnswers == {[kind |-> "status", code |-> 500],
                  [kind |-> "image", w |-> 82, h |-> 82]}

\* One invocation of the command. The encoder answers only when it is
\* called (non-empty content), the art service only when a request is sent.
Run ==
    /\ pc = "start"
    /\ \E a \in QrCodeArgs :
       \E enc \in IF a.content = "" THEN {Nil} ELSE RunEncodeAnswers :
       \E api \in IF enc.tag = "Ok" /\ a.format = "Png" /\ a.ai_prompt # None
                     /\ a.api_key # None /\ aiFeature
                  THEN RunApiAnswers ELSE {Nil} :
       \E r \in {run(a, aiFeature, overflowChecks, enc, api)} :
          /\ args' = a
          /\ encodeRet' = enc
          /\ bgIn' = api
          /\ events' = r
    /\ pc' = "run"
    /\ UNCHANGED <<overflowChecks, aiFeature, config, encodeLog, qrRet, colorIn,
                   colorRet, qr, imageConfig, image, logoConfig, opRet, fsLog,
                   locals, netLog, termOut, passwordVars, convertVars>>

InitRun ==
    /\ NothingCalled
    /\ overflowChecks \in BOOLEAN
    /\ aiFeature \in BOOLEAN
    /\ disk = Nil
NextRun == Run
SpecRun == InitRun /\ [][NextRun]_vars

\* the file and network I/O of a run
IsIO(e) == e.kind \in {"open", "request", "write"}
InputErrors == {"EmptyContent", "ContentTooLarge", "InvalidColor", "LogoTooLarge"}
ReportsInputError(e) ==
    e.kind = "stderr" /\ e.what.tag = "Err" /\ e.what.err \in InputErrors

\* the input errors that apply to the arguments of the run: empty content,
\* content the encoder finds too long, a colour text that is no colour, a
\* logo with a size outside [5, 30]
InputErrorsOf(a, enc) ==
    {e \in InputErrors :
        CASE e = "EmptyContent" -> a.content = ""
          [] e = "ContentTooLarge" ->
                a.content # "" /\ enc.tag = "Err" /\ Contains(enc.msg, "data too long")
          [] e = "InvalidColor" ->
                ColorOf(a.dark_color) = <<>> \/ ColorOf(a.light_color) = <<>>
          [] e = "LogoTooLarge" ->
                a.logo # None /\ (a.logo_size < 5 \/ a.logo_size > 30)}

\* C11: in every run, an input error (EmptyContent, ContentTooLarge,
\* InvalidColor, LogoTooLarge) is reported before any file is opened, any
\* request sent and any file written; and when an input error applies to
\* the arguments, the run opens no file, sends no request, writes no file,
\* and ends by reporting an input error that applies.
C11_InputErrorsBeforeIO ==
    pc = "run" =>
        /\ \A i \in 1..Len(events) :
              ReportsInputError(events[i]) =>
                  \A j \in 1..(i - 1) : ~IsIO(events[j])
        /\ InputErrorsOf(args, encodeRet) # {} =>
              /\ \A i \in 1..Len(events) : ~IsIO(events[i])
              /\ Len(events) >= 2
              /\ events[Len(events)].kind = "exit"
              /\ events[Len(events)].what = 1
              /\ ReportsInputError(events[Len(events) - 1])
              /\ events[Len(events) - 1].what.err \in InputErrorsOf(args, encodeRet)

(***************************************************************************)
(* Terminal rendering on its own: render_to_terminal on every matrix and   *)
(* every QrConfig of a generated matrix.                                   *)
(***************************************************************************)
TerminalConfigs ==
    [content : Contents \ {""}, error_correction : ErrorCorrectionLevel,
     quiet_zone : BOOLEAN, invert : BOOLEAN]

RenderToTerminal ==
    /\ pc = "start"
    /\ \E q \in Matrices, cfg \in TerminalConfigs :
          /\ qr' = q
          /\ config' = cfg
          /\ termOut' = render_to_terminal(q, cfg)
    /\ pc' = "render_to_terminal"
    /\ UNCHANGED <<overflowChecks, aiFeature, encodeRet, encodeLog, qrRet,
                   colorIn, colorRet, imageConfig, image, logoConfig, opRet,
                   fsLog, locals, bgIn, netLog, args, events, passwordVars,
                   convertVars>>

NextTerminal == RenderToTerminal
SpecTerminal == InitIdle /\ [][NextTerminal]_vars

\* whether the half of the text cell that shows canvas pixel (x, y) is
\* filled: row y is the upper half of line y \div 2 + 1 when y is even, the
\* lower half when y is odd
Filled(text, x, y) ==
    LET g == text[(y \div 2) + 1][x + 1] IN
    IF y % 2 = 0 THEN g \in {"U+2580", "U+2588"} ELSE g \in {"U+2584", "U+2588"}

\* C12: in the text of render_to_terminal a half cell is filled exactly for
\* the dark modules when invert is off and exactly for everything else
\* (light modules and quiet zone) when invert is on, so the assignment of
\* the two glyph halves is swapped; the half line below an odd number of
\* rows stays empty; and the inverted text differs from the text rendered
\* with invert off, all other options equal.
C12_InvertSwapsGlyphs ==
    pc = "render_to_terminal" =>
        LET qz == IF config.quiet_zone THEN 4 ELSE 0
            width == qr.width + 2 * qz
            dark(x, y) == /\ qz <= x /\ x < qr.width + qz
                          /\ qz <= y /\ y < qr.width + qz
                          /\ IsDark(qr, x - qz, y - qz)
        IN /\ Len(termOut) = (width + 1) \div 2
           /\ \A l \in 1..Len(termOut) : Len(termOut[l]) = width
           /\ \A x \in 0..(width - 1), y \in 0..(width - 1) :
                 Filled(termOut, x, y) <=> (dark(x, y) # config.invert)
           /\ width % 2 = 1 =>
                 \A x \in 0..(width - 1) : ~Filled(termOut, x, width)
           /\ (\E x, y \in 0..(width - 1) : dark(x, y))
              /\ (\E x, y \in 0..(width - 1) : ~dark(x, y))
              /\ config.invert
              => termOut # render_to_terminal(qr, [config EXCEPT !.invert = FALSE])

\* an inverted rendering with quiet zone of a 21-module matrix: 15 lines of
\* 29 glyphs, the quiet zone drawn as full blocks
C12_Witness ==
    /\ pc = "render_to_terminal"
    /\ config.invert /\ config.quiet_zone /\ qr.width = 21
    /\ Len(termOut) = 15
    /\ termOut[1][1] = "U+2588"
    /\ termOut[3][5] = " "

(***************************************************************************)
(* Password generator (crates/dev-swiss-core/src/password.rs)              *)
(* A password is a sequence of characters.                                 *)
(***************************************************************************)
UPPERCASE == "ABCDEFGHIJKLMNOPQRSTUVWXYZ"
LOWERCASE == "abcdefghijklmnopqrstuvwxyz"
NUMBERS == "0123456789"
SYMBOLS == "!@#$%^&*()_+-=[]{}|;:,.<>?"
AMBIGUOUS == "0O1lI"

\* str::contains(char)
contains_char(s, c) == \E i \in 1..Len(s) : SubSeq(s, i, i) = c

\* charset.chars().filter(|c| !excluded.contains(*c)).collect()
filter_not_in(charset, excluded) ==
    LET keep(c) == ~contains_char(excluded, c) IN SelectSeq(charset, keep)

\* A value of the random generator (RngCore::next_u64) is a 64-bit word,
\* written as its four 16-bit limbs, the least significant first.
Limb == 65536

\* u64::wmul: the product v * range as the words (hi, lo), for range < 2^15
wmul(v, range) ==
    LET p1 == v[1] * range
        p2 == v[2] * range + p1 \div Limb
        p3 == v[3] * range + p2 \div Limb
        p4 == v[4] * range + p3 \div Limb
    IN [hi |-> p4 \div Limb, lo |-> <<p1 % Limb, p2 % Limb, p3 % Limb, p4 % Limb>>]

\* the number of bits of n: 64 - n.leading_zeros()
RECURSIVE bit_length(_)
bit_length(n) == IF n = 0 THEN 0 ELSE 1 + bit_length(n \div 2)

\* (range << range.leading_zeros()).wrapping_sub(1), for 0 < range < 2^16
zone(range) ==
    <<Limb - 1, Limb - 1, Limb - 1, range * 2^(16 - bit_length(range)) - 1>>

\* a <= b on 64-bit words
le_word(a, b) ==
    \E k \in 0..4 : /\ \A j \in (k + 1)..4 : a[j] = b[j]
                    /\ k = 0 \/ a[k] < b[k]

\* rng.gen_range(0..range) on a 64-bit target (UniformInt::sample_single of
\* rand 0.8): the high word of value * range, for the first value whose low
\* word is within the zone; the values before it are drawn and dropped.
\* used is the number of values taken, idx is -1 when values runs out.
RECURSIVE gen_range(_, _)
gen_range(values, range) ==
    IF values = <<>> THEN [idx |-> -1, used |-> 0]
    ELSE LET m == wmul(Head(values), range) IN
         IF le_word(m.lo, zone(range)) THEN [idx |-> m.hi, used |-> 1]
         ELSE LET again == gen_range(Tail(values), range)
              IN [idx |-> again.idx, used |-> again.used + 1]

\* (0..length).map(|_| charset[rng.gen_range(0..charset.len())]).collect()
RECURSIVE collect_password(_, _, _)
collect_password(length, charset, values) ==
    IF length = 0 THEN [done |-> TRUE, password |-> <<>>, used |-> 0]
    ELSE LET g == gen_range(values, Len(charset)) IN
         IF g.idx < 0 THEN [done |-> FALSE, password |-> <<>>, used |-> Len(values)]
         ELSE LET rest == collect_password(length - 1, charset,
                                           SubSeq(values, g.used + 1, Len(values)))
              IN [done |-> rest.done, password |-> <<charset[g.idx + 1]>> \o rest.password,
                  used |-> g.used + rest.used]

\* the steps of generate_password; ambiguous is the text removed when
\* exclude_ambiguous is set, emptyFirst the error of an empty first charset.
\* ret is the returned value (Pending when the call needs more values than
\* values holds), drawn the values taken from the generator.
generate_password_with(cfg, values, ambiguous, emptyFirst) ==
    LET charset0 == (IF cfg.uppercase THEN Chars(UPPERCASE) ELSE <<>>)
                    \o (IF cfg.lowercase THEN Chars(LOWERCASE) ELSE <<>>)
                    \o (IF cfg.numbers THEN Chars(NUMBERS) ELSE <<>>)
                    \o (IF cfg.symbols THEN Chars(SYMBOLS) ELSE <<>>)
        charset1 == IF cfg.exclude_ambiguous
                    THEN filter_not_in(charset0, ambiguous) ELSE charset0
        charset == IF cfg.exclude_chars # ""
                   THEN filter_not_in(charset1, cfg.exclude_chars) ELSE charset1
    IN IF charset0 = <<>> THEN [ret |-> Err(emptyFirst, ""), drawn |-> <<>>]
       ELSE IF charset = <<>>
       THEN [ret |-> Err("EmptyCharacterPool", ""), drawn |-> <<>>]
       ELSE LET c == collect_password(cfg.length, charset, values)
            IN [ret |-> IF c.done THEN Ok(c.password) ELSE [tag |-> "Pending"],
                drawn |-> SubSeq(values, 1, c.used)]

\* generate_password that leaves the ambiguous characters in
generate_password_keepAmbiguous(cfg, values) ==
    generate_password_with(cfg, values, "", "NoCharacterSets")

\* generate_password that reports an empty pool when no set is enabled
generate_password_poolOnly(cfg, values) ==
    generate_password_with(cfg, values, AMBIGUOUS, "EmptyCharacterPool")

\* generate_password(config): ret is the returned value, drawn the values
\* taken from the random generator; values is what the generator yields.
generate_password(cfg, values) ==
    generate_password_with(cfg, values, AMBIGUOUS, "NoCharacterSets")

\* commands::password::run(args) with the generator yielding values: the
\* events of the command, the values it took, and the last result of
\* generate_password (Nil when count is 0, Pending when values runs out)
RECURSIVE password_loop(_, _, _)
password_loop(count, cfg, values) ==
    IF count = 0 THEN [events |-> <<>>, drawn |-> <<>>, last |-> Nil]
    ELSE LET r == generate_password(cfg, values) IN
         IF r.ret.tag = "Pending" THEN [events |-> <<>>, drawn |-> values, last |-> r.ret]
         ELSE IF r.ret.tag = "Err"
         THEN [events |-> fail(r.ret), drawn |-> r.drawn, last |-> r.ret]
         ELSE LET rest == password_loop(count - 1, cfg,
                                        SubSeq(values, Len(r.drawn) + 1, Len(values)))
              IN [events |-> <<Event("stdout", r.ret.val)>> \o rest.events,
                  drawn |-> r.drawn \o rest.drawn,
                  last |-> IF rest.last = Nil THEN r.ret ELSE rest.last]

password_config(a) ==
    [length |-> a.length, uppercase |-> ~a.no_uppercase, lowercase |-> ~a.no_lowercase,
     numbers |-> ~a.no_numbers, symbols |-> ~a.no_symbols,
     exclude_ambiguous |-> a.no_ambiguous, exclude_chars |-> a.exclude]

password_run(a, values) == password_loop(a.count, password_config(a), values)

MaxPwLength == 2
MaxCount == 2
\* the values a single call may draw and drop before one is within the zone
MaxRedraws == 1
\* values of the random generator: 9, 2^61 - 1 and 2^63; and for a password
\* of one character the 128 multiples of 2^57, which reach every index of
\* the longest charset (88 characters)
RngValues == {<<9, 0, 0, 0>>, <<65535, 65535, 65535, 8191>>, <<0, 0, 0, 32768>>}
WideRngValues == {<<0, 0, 0, 512 * k>> : k \in 0..127}
RngStreams(least, most, values) == UNION {[1..n -> values] : n \in least..most}
ExcludeChars == {"", "abc", "23456789", "0123456789"}
PasswordConfigs ==
    [length : 0..MaxPwLength, uppercase : BOOLEAN, lowercase : BOOLEAN,
     numbers : BOOLEAN, symbols : BOOLEAN, exclude_ambiguous : BOOLEAN,
     exclude_chars : ExcludeChars]
\* arguments of the command: no password characters or MaxPwLength of them
PasswordArgs ==
    [length : {0, MaxPwLength}, count : 0..MaxCount, no_uppercase : BOOLEAN,
     no_lowercase : BOOLEAN, no_numbers : BOOLEAN, no_symbols : BOOLEAN,
     no_ambiguous : BOOLEAN, exclude : {""}]

InitPassword == InitIdle /\ overflowChecks = TRUE

\* one call of generate_password; the generator yields exactly the values
\* the call takes
GeneratePassword ==
    /\ pc = "start"
    /\ \E cfg \in PasswordConfigs :
       \E values \in {<<>>} \cup RngStreams(cfg.length, cfg.length + MaxRedraws, RngValues)
                     \cup (IF cfg.length = 1 THEN {<<v>> : v \in WideRngValues} ELSE {}) :
       \E r \in {generate_password(cfg, values)} :
          /\ r.ret.tag # "Pending"
          /\ r.drawn = values
          /\ pwConfig' = cfg
          /\ rng' = r.drawn
          /\ pwRet' = r.ret
    /\ pc' = "generate_password"
    /\ UNCHANGED <<overflowChecks, aiFeature, coreVars, commandVars, convertVars>>

\* one invocation of the password command; the generator yields exactly the
\* values the command takes, each 9 or 2^61 - 1, at most one of them drawn
\* and dropped
PasswordRun ==
    /\ pc = "start"
    /\ \E a \in PasswordArgs :
       \E values \in {<<>>} \cup RngStreams(a.count * a.length,
                                            a.count * a.length + 1,
                                            {<<9, 0, 0, 0>>,
                                             <<65535, 65535, 65535, 8191>>}) :
       \E r \in {password_run(a, values)} :
          /\ r.last.tag # "Pending"
          /\ r.drawn = values
          /\ args' = a
          /\ pwConfig' = password_config(a)
          /\ rng' = r.drawn
          /\ pwRet' = r.last
          /\ events' = r.events
    /\ pc' = "password_run"
    /\ UNCHANGED <<overflowChecks, aiFeature, coreVars, termOut, convertVars>>

NextPassword == GeneratePassword \/ PasswordRun
SpecPassword == InitPassword /\ [][NextPassword]_vars

\* the characters of a text
CharsOf(s) == {SubSeq(s, i, i) : i \in 1..Len(s)}
UpperChars == CharsOf("ABCDEFGHIJKLMNOPQRSTUVWXYZ")
LowerChars == CharsOf("abcdefghijklmnopqrstuvwxyz")
DigitChars == CharsOf("0123456789")
SymbolChars == CharsOf("!@#$%^&*()_+-=[]{}|;:,.<>?")
AmbiguousChars == {"0", "O", "1", "l", "I"}

\* the characters a configuration admits: those of the enabled sets, without
\* the ambiguous ones when exclude_ambiguous is set and without those of
\* exclude_chars
AdmittedChars(cfg) ==
    ((IF cfg.uppercase THEN UpperChars ELSE {})
     \cup (IF cfg.lowercase THEN LowerChars ELSE {})
     \cup (IF cfg.numbers THEN DigitChars ELSE {})
     \cup (IF cfg.symbols THEN SymbolChars ELSE {}))
    \ ((IF cfg.exclude_ambiguous THEN AmbiguousChars ELSE {})
        \cup CharsOf(cfg.exclude_chars))

\* C13: a password generate_password returns has exactly config.length
\* characters, each from the enabled sets, none ambiguous when
\* exclude_ambiguous is set, none from exclude_chars.
C13_PasswordFromAdmittedChars ==
    (pc = "generate_password" /\ pwRet.tag = "Ok") =>
        /\ Len(pwRet.val) = pwConfig.length
        /\ \A i \in 1..Len(pwRet.val) : pwRet.val[i] \in AdmittedChars(pwConfig)

\* two characters drawn from the digits without the ambiguous 0 and 1, the
\* second after one value was drawn and dropped
C13_Witness ==
    /\ pc = "generate_password" /\ pwRet.tag = "Ok"
    /\ pwConfig.length = 2 /\ pwConfig.exclude_ambiguous
    /\ pwConfig.numbers /\ ~pwConfig.uppercase /\ ~pwConfig.lowercase
    /\ ~pwConfig.symbols /\ pwConfig.exclude_chars = ""
    /\ pwRet.val = <<"2", "6">>
    /\ Len(rng) = 3

\* C14: generate_password fails with NoCharacterSets exactly when the four
\* sets are all disabled, with EmptyCharacterPool exactly when a set is
\* enabled and the exclusions leave no character, and succeeds otherwise,
\* whatever the length.
C14_PasswordErrors ==
    pc = "generate_password" =>
        LET noSets == ~(pwConfig.uppercase \/ pwConfig.lowercase
                        \/ pwConfig.numbers \/ pwConfig.symbols)
            noChars == AdmittedChars(pwConfig) = {}
        IN /\ pwRet = Err("NoCharacterSets", "") <=> noSets
           /\ pwRet = Err("EmptyCharacterPool", "") <=> (~noSets /\ noChars)
           /\ pwRet.tag = "Ok" <=> (~noSets /\ ~noChars)

\* only the digits enabled and all ten excluded
C14_Witness ==
    /\ pc = "generate_password"
    /\ pwConfig.numbers /\ pwConfig.exclude_chars = "0123456789"
    /\ pwConfig.length = 0
    /\ pwRet = Err("EmptyCharacterPool", "")

\* C15 as stated: the art adapter keeps a margin of 40 pixels on each side,
\* scale = floor((min(bgWidth, bgHeight) - 2 * 40) / moduleCount).
C15_ArtScaleWithMargin40 ==
    (pc = "generate_ai_qr" /\ bgIn.kind = "image" /\ Min(bgIn.w, bgIn.h) >= 80) =>
        locals.scale = (Min(bgIn.w, bgIn.h) - 2 * 40) \div qr.width

\* C15: the art adapter subtracts 40 pixels in all, the amount the
\* background compositor reserves with its margin of 20 on each side: on a
\* decoded background with min(width, height) >= 40 its scale is
\* floor((min(width, height) - 2 * 20) / moduleCount), the scale of the
\* background compositor, and it renders at that scale whatever it is (no
\* refusal below 2); with min(width, height) < 40 its subtraction underflows
\* and the call does not return.
C15_ArtScaleAsBackgroundScale ==
    (pc = "generate_ai_qr" /\ bgIn.kind = "image") =>
        LET side == Min(bgIn.w, bgIn.h) IN
        IF side >= 40
        THEN /\ opRet.tag # "Err"
             /\ "scale" \in DOMAIN locals
             /\ locals.scale = Max(side - 2 * Margin, 0) \div qr.width
             /\ locals.qr_width = (qr.width + 8) * Max(locals.scale, 1)
        ELSE opRet.tag = "Panic"

\* an 82 x 82 background and 21 modules: scale 2 on the art path as on the
\* background path
C15_Witness ==
    /\ pc = "generate_ai_qr" /\ bgIn = [kind |-> "image", w |-> 82, h |-> 82]
    /\ qr.width = 21 /\ locals.scale = 2 /\ opRet = Ok(<<>>)
    /\ image.w = 82

\* C16: in a composed image that holds the whole matrix raster, every module
\* is drawn in the caller's colours: the dark colour of the ImageConfig
\* handed to the call for a dark module, its light colour for a light one,
\* on the background path and on the art path alike.
C16_CallerColoursOnEveryPath ==
    (/\ pc \in {"overlay_on_background", "generate_ai_qr"}
     /\ opRet = Ok(<<>>)
     /\ locals.qr_width <= image.w /\ locals.qr_height <= image.h) =>
        LET mw == Max(locals.scale, 1) IN
        \A mx, my \in 0..(qr.width - 1) :
            At(image, locals.x + (4 + mx) * mw, locals.y + (4 + my) * mw)
                = IF IsDark(qr, mx, my) THEN imageConfig.dark_color
                  ELSE imageConfig.light_color

\* the positions in the run at which a compositor was called
Compositors == {"generate_ai_qr", "overlay_on_background", "overlay_logo"}
Calls(ops) == {i \in 1..Len(events) : events[i].kind = "call" /\ events[i].what \in ops}
Happened(kind) == {i \in 1..Len(events) : events[i].kind = kind}

\* the positions at which the run reported an error or was aborted
Failures ==
    {i \in Happened("stderr") : events[i].what.tag = "Err"} \cup Happened("panic")

\* In one run at most one of the art adapter, the background compositor and
\* the logo compositor is called, the art adapter only with an art prompt,
\* the background compositor only with a background and without art prompt,
\* the logo compositor only without both; with an art prompt or a
\* background the logo file is never opened. save_image is called at most
\* once, after the compositor and only if nothing failed before.
OneCompositorThenSave ==
    LET composed == Calls(Compositors)
        saves == Calls({"save_image"})
        last == events[Len(events)]
    IN /\ Cardinality(composed) <= 1
       /\ Calls({"generate_ai_qr"}) # {} => args.ai_prompt # None
       /\ Calls({"overlay_on_background"}) # {} =>
             args.ai_prompt = None /\ args.background # None
       /\ Calls({"overlay_logo"}) # {} =>
             args.ai_prompt = None /\ args.background = None /\ args.logo # None
       /\ (args.ai_prompt # None \/ args.background # None) =>
             \A i \in Happened("open") :
                 args.logo = None \/ events[i].what # args.logo[1]
       /\ Cardinality(saves) <= 1
       /\ \A s \in saves :
             /\ \A c \in composed : c < s
             /\ \A f \in Failures : s < f
       /\ Cardinality(Happened("write")) <= 1
       /\ \A w \in Happened("write") :
             /\ args.output = Some(events[w].what.path)
             /\ args.format = "Png" => w - 1 \in saves
       /\ (args.format = "Png" /\ last.kind = "exit" /\ last.what = 0) =>
             /\ Cardinality(saves) = 1 /\ Cardinality(Happened("write")) = 1
             /\ args.ai_prompt # None => Calls({"generate_ai_qr"}) # {}
             /\ (args.ai_prompt = None /\ args.background # None) =>
                   Calls({"overlay_on_background"}) # {}
             /\ (args.ai_prompt = None /\ args.background = None
                 /\ args.logo # None) => Calls({"overlay_logo"}) # {}

\* whether the run ended in an error
RunFailed ==
    LET last == events[Len(events)]
    IN Failures # {} \/ last.kind # "exit" \/ last.what # 0

\* C17: at most one compositor acts on the raster, by the priority art,
\* background, logo, save_image is called at most once and only after the
\* composition succeeded, and a run that ends in an error has written no
\* file.
C17_OneCompositorThenSave ==
    pc = "run" =>
        /\ OneCompositorThenSave
        /\ RunFailed => Happened("write") = {}

\* C17, amended: at most one compositor acts on the raster, by the priority
\* art, background, logo, and save_image is called at most once and only
\* after the composition succeeded. A run that ends in an error before the
\* save has written no file; so has a run whose save fails because the
\* format is not known or the file cannot be created. A run whose save
\* fails after the file was created leaves that file, with the beginning
\* of the content or nothing in it, reports the failure of the save right
\* after it, and has written no other file. A run that succeeds has written
\* the whole content.
C17_OneCompositorThenSaveOrPartial ==
    pc = "run" =>
        /\ OneCompositorThenSave
        /\ \A w \in Happened("write") :
              /\ events[w].what.data = Partial <=> RunFailed
              /\ events[w].what.data = Partial <=> ~can_write(events[w].what.path)
              /\ RunFailed =>
                    /\ Failures = {w + 1}
                    /\ events[w + 1].kind = "stderr"
                    /\ events[w + 1].what.err \in {"IoError", "WriteFailed"}
        /\ (RunFailed /\ Happened("write") # {}) =>
              /\ args.output # None
              /\ can_create(args.output[1]) /\ ~can_write(args.output[1])
              /\ args.format = "Png" => known_format(args.output[1])

\* a run with art prompt, background and logo all given, to a device without
\* room: only the art adapter ran, then the one save, which failed and left
\* the file it had created
C17_Witness ==
    /\ pc = "run"
    /\ args.ai_prompt # None /\ args.background = Some("bg82.png")
    /\ args.logo = Some("logo.png") /\ args.output = Some("full/out.png")
    /\ Calls({"generate_ai_qr"}) # {} /\ Calls({"save_image"}) # {}
    /\ Happened("write") # {} /\ Happened("open") = {}
    /\ events[Len(events)].kind = "exit" /\ events[Len(events)].what = 1
    /\ \E w \in Happened("write") : events[w].what.data = Partial

LevelLetter(level) ==
    CASE level = "Low" -> "L" [] level = "Medium" -> "M"
      [] level = "Quartile" -> "Q" [] level = "High" -> "H"

\* C18: the encoder is invoked at most once per run, on the content given,
\* at High when a logo is given and the requested level is Low or Medium
\* and at the requested level otherwise; so a matrix the logo compositor
\* is called on was encoded at Quartile or High.
C18_UpgradeInCommandLayer ==
    pc = "run" =>
        LET encodes == Happened("encode") IN
        /\ Cardinality(encodes) <= 1
        /\ args.content # "" => Cardinality(encodes) = 1
        /\ \A i \in encodes :
              /\ events[i].what.content = args.content
              /\ events[i].what.ec_level =
                    IF args.logo # None /\ args.error_correction \in {"Low", "Medium"}
                    THEN "H" ELSE LevelLetter(args.error_correction)
              /\ Calls({"overlay_logo"}) # {} => events[i].what.ec_level \in {"Q", "H"}
        /\ Calls({"overlay_logo"}) # {} => encodes # {}

\* a logo requested at level Low: encoded at H, the logo overlaid, the file
\* written
C18_Witness ==
    /\ pc = "run"
    /\ args.logo = Some("logo.png") /\ args.error_correction = "Low"
    /\ \E i \in Happened("encode") : events[i].what.ec_level = "H"
    /\ Calls({"overlay_logo"}) # {}
    /\ Happened("write") # {}

\* C19: when overlay_on_background loads its background and does not return
\* BackgroundTooSmall, it returns the composed image: the raster rendered at
\* the computed scale, quiet zone included, is no wider and no taller than
\* the background, and it lies centred inside it, at
\* x = (bgWidth - qrWidth) / 2 >= 0 and y = (bgHeight - qrHeight) / 2 >= 0.
C19_RasterFitsBackground ==
    (/\ pc = "overlay_on_background"
     /\ Files[bgIn].kind = "image"
     /\ opRet # Err("BackgroundTooSmall", "")) =>
        /\ opRet = Ok(<<>>)
        /\ locals.qr_width <= Files[bgIn].w
        /\ locals.qr_height <= Files[bgIn].h
        /\ 2 * locals.x \in {Files[bgIn].w - locals.qr_width,
                             Files[bgIn].w - locals.qr_width - 1}
        /\ 2 * locals.y \in {Files[bgIn].h - locals.qr_height,
                             Files[bgIn].h - locals.qr_height - 1}
        /\ locals.x + locals.qr_width <= image.w
        /\ locals.y + locals.qr_height <= image.h

(***************************************************************************)
(* Converter (crates/dev-swiss-core/src/convert.rs)                        *)
(* The disk maps each path to what is there: nothing, a directory, a PDF   *)
(* (the text pdf_extract finds in it), a document (its paragraphs), the    *)
(* beginning of a document whose writing failed, or any other file.        *)
(***************************************************************************)
Format == {"Pdf", "Docx"}

Paths == {"in.pdf", "empty.pdf", "broken.pdf", "gone.pdf", "out.docx", "dir",
          "nodir/out.docx"}

Absent == [kind |-> "absent"]

\* the texts of in.pdf: two lines; three pages, the second blank, and a line
\* ending of two characters; spaces around a line; whitespace only
PdfTexts == {"Hello\nWorld", "Hello\f \fWorld\r\n", " Hello \fWorld", " \n\t"}

\* The disks a run can start on: the output path free or taken.
Disks ==
    {[p \in Paths |->
        CASE p = "in.pdf" -> [kind |-> "pdf", text |-> text]
          [] p = "empty.pdf" -> [kind |-> "pdf", text |-> ""]
          [] p = "broken.pdf" -> [kind |-> "file", data |-> <<[text |-> Chars("not a pdf")]>>]
          [] p = "out.docx" -> out
          [] p = "dir" -> [kind |-> "dir"]
          [] OTHER -> Absent] :
     text \in PdfTexts,
     out \in {Absent, [kind |-> "file", data |-> <<[text |-> Chars("old")]>>]}}

\* Path::exists
exists(d, path) == d[path].kind # "absent"

\* pdf_extract::extract_text(path): the text of the document
extract_text(d, path) ==
    IF d[path].kind = "pdf" THEN Ok(Chars(d[path].text))
    ELSE Err("PdfReadError", "PDF error: Invalid file header")

\* File::create(path) fails on a directory and in a directory that is not
\* there
can_create_file(d, path) == path # "nodir/out.docx" /\ d[path].kind # "dir"

\* str::contains(char) on a text
contains(t, c) == \E i \in 1..Len(t) : t[i] = c

\* str::split(char): the parts of the text between the occurrences of sep
RECURSIVE split(_, _)
split(t, sep) ==
    IF ~contains(t, sep) THEN <<t>>
    ELSE LET i == CHOOSE k \in 1..Len(t) : t[k] = sep /\ \A j \in 1..(k - 1) : t[j] # sep
         IN <<SubSeq(t, 1, i - 1)>> \o split(SubSeq(t, i + 1, Len(t)), sep)

\* str::lines: the lines end at "\n" or "\r\n", the last line need not end
lines(t) ==
    LET parts == split(t, "\n")
        ended == IF parts[Len(parts)] = <<>> THEN SubSeq(parts, 1, Len(parts) - 1)
                 ELSE parts
        line(i) == IF i < Len(parts) /\ ended[i] # <<>> /\ ended[i][Len(ended[i])] = "\r"
                   THEN SubSeq(ended[i], 1, Len(ended[i]) - 1)
                   ELSE ended[i]
    IN [i \in 1..Len(ended) |-> line(i)]

\* the paragraphs of one page: its lines, trimmed, without the empty ones
page_paragraphs(page_text) ==
    LET ls == lines(page_text)
        trimmed == [i \in 1..Len(ls) |-> [text |-> trim(ls[i])]]
        filled(par) == par.text # <<>>
    IN SelectSeq(trimmed, filled)

\* the paragraphs of the document: those of each page, and a page break
\* after every page but the last
RECURSIVE paragraphs_of(_)
paragraphs_of(pages) ==
    IF pages = <<>> THEN <<>>
    ELSE page_paragraphs(Head(pages))
         \o (IF Len(pages) > 1 THEN <<[break |-> "Page"]>> ELSE <<>>)
         \o paragraphs_of(Tail(pages))

\* convert_pdf_to_docx(config): ret is the returned value, disk the disk
\* after the call; packs tells whether docx.build().pack(writer) succeeds
convert_pdf_to_docx(cfg, d, packs) ==
    LET text == extract_text(d, cfg.input_path) IN
    IF text.tag # "Ok" THEN [ret |-> text, disk |-> d]
    ELSE
    LET pages == IF contains(text.val, "\f") THEN split(text.val, "\f")
                 ELSE <<text.val>>
        warnings == IF Len(pages) = 1 /\ trim(pages[1]) = <<>>
                    THEN <<"PDF appears to contain no extractable text (may be image-based)">>
                    ELSE <<>>
    IN IF ~can_create_file(d, cfg.output_path)
       THEN [ret |-> Err("IoError", "File::create failed"), disk |-> d]
       ELSE IF ~packs
       THEN [ret |-> Err("DocxWriteError", "pack failed"),
             disk |-> [d EXCEPT ![cfg.output_path] = [kind |-> "partial"]]]
       ELSE [ret |-> Ok([pages_processed |-> Len(pages), warnings |-> warnings]),
             disk |-> [d EXCEPT ![cfg.output_path] =
                          [kind |-> "file", data |-> paragraphs_of(pages)]]]

\* convert that looks for the input before it looks at the formats
convert_inputFirst(cfg, d, packs) ==
    IF ~exists(d, cfg.input_path)
    THEN [ret |-> Err("InputNotFound", cfg.input_path), disk |-> d]
    ELSE IF cfg.from_format # "Pdf" \/ cfg.to_format # "Docx"
    THEN [ret |-> Err("UnsupportedConversion", <<cfg.from_format, cfg.to_format>>),
          disk |-> d]
    ELSE IF exists(d, cfg.output_path) /\ ~cfg.force
    THEN [ret |-> Err("OutputExists", cfg.output_path), disk |-> d]
    ELSE convert_pdf_to_docx(cfg, d, packs)

\* convert(config)
convert(cfg, d, packs) ==
    IF cfg.from_format # "Pdf" \/ cfg.to_format # "Docx"
    THEN [ret |-> Err("UnsupportedConversion", <<cfg.from_format, cfg.to_format>>),
          disk |-> d]
    ELSE IF ~exists(d, cfg.input_path)
    THEN [ret |-> Err("InputNotFound", cfg.input_path), disk |-> d]
    ELSE IF exists(d, cfg.output_path) /\ ~cfg.force
    THEN [ret |-> Err("OutputExists", cfg.output_path), disk |-> d]
    ELSE convert_pdf_to_docx(cfg, d, packs)

\* commands::convert::run(args): what convert returns, the disk after it and
\* the events of the command
convert_config(a) ==
    [input_path |-> a.input, output_path |-> a.output, from_format |-> a.from,
     to_format |-> a.to, force |-> a.force, verbose |-> a.verbose]

convert_run(a, d, packs) ==
    LET r == convert(convert_config(a), d, packs) IN
    [ret |-> r.ret, disk |-> r.disk,
     events |->
        IF r.ret.tag = "Ok"
        THEN (IF a.verbose
              THEN <<Event("stdout", <<"Converted page(s)", r.ret.val.pages_processed>>)>>
                   \o Events("stderr", [i \in 1..Len(r.ret.val.warnings) |->
                                           <<"Warning", r.ret.val.warnings[i]>>])
              ELSE <<>>)
             \o <<Event("stdout", <<"Successfully converted to", a.output>>)>>
        ELSE fail(r.ret)]

ConvertConfigs ==
    [input_path : {"in.pdf", "empty.pdf", "broken.pdf", "gone.pdf"},
     output_path : {"out.docx", "dir", "nodir/out.docx", "in.pdf"},
     from_format : Format, to_format : Format, force : BOOLEAN,
     verbose : {FALSE}]
ConvertArgs ==
    [input : {"in.pdf", "empty.pdf", "gone.pdf"}, output : {"out.docx"},
     from : Format, to : {"Docx"}, force : BOOLEAN, verbose : BOOLEAN]

\* One call of convert on the disk as it is; calls follow one another.
\* args and events tell of the last call: no command took part in this one.
Convert ==
    /\ \E cfg \in ConvertConfigs, packs \in BOOLEAN :
       \E r \in {convert(cfg, disk, packs)} :
          /\ cvConfig' = cfg
          /\ cvRet' = r.ret
          /\ disk' = r.disk
    /\ pc' = "convert"
    /\ args' = Nil
    /\ events' = <<>>
    /\ UNCHANGED <<overflowChecks, aiFeature, coreVars, termOut, passwordVars>>

\* One invocation of the convert command on the disk as it is.
ConvertRun ==
    /\ \E a \in ConvertArgs, packs \in BOOLEAN :
       \E r \in {convert_run(a, disk, packs)} :
          /\ args' = a
          /\ cvConfig' = convert_config(a)
          /\ cvRet' = r.ret
          /\ disk' = r.disk
          /\ events' = r.events
    /\ pc' = "convert_run"
    /\ UNCHANGED <<overflowChecks, aiFeature, coreVars, termOut, passwordVars>>

InitConvert ==
    /\ NothingCalled
    /\ overflowChecks = TRUE
    /\ aiFeature = TRUE
    /\ disk \in Disks
NextConvert == Convert \/ ConvertRun
SpecConvert == InitConvert /\ [][NextConvert]_vars

\* C20: a call of convert with a format pair other than Pdf -> Docx returns
\* UnsupportedConversion, also when the input is missing; otherwise with a
\* missing input InputNotFound; otherwise with an existing output and
\* force off OutputExists; each of the three only then, and the disk is
\* then as it was. No call changes a path other than the output path, and
\* an output that existed is changed only with force on.
C20_PreconditionsInOrder ==
    [][pc' \in {"convert", "convert_run"} =>
          LET c == cvConfig'
              supported == c.from_format = "Pdf" /\ c.to_format = "Docx"
              missing == disk[c.input_path].kind = "absent"
              taken == disk[c.output_path].kind # "absent"
              failed(kind) == cvRet'.tag = "Err" /\ cvRet'.err = kind
          IN /\ failed("UnsupportedConversion") <=> ~supported
             /\ failed("UnsupportedConversion") =>
                    cvRet'.msg = <<c.from_format, c.to_format>>
             /\ failed("InputNotFound") <=> (supported /\ missing)
             /\ failed("InputNotFound") => cvRet'.msg = c.input_path
             /\ failed("OutputExists")
                    <=> (supported /\ ~missing /\ taken /\ ~c.force)
             /\ failed("OutputExists") => cvRet'.msg = c.output_path
             /\ (~supported \/ missing \/ (taken /\ ~c.force)) => disk' = disk
             /\ \A p \in Paths : p # c.output_path => disk'[p] = disk[p]
             /\ (taken /\ disk'[c.output_path] # disk[c.output_path]) => c.force
             /\ cvRet'.tag = "Ok" =>
                   disk'[c.output_path].kind = "file"
             /\ pc' = "convert_run" =>
                   \A i \in 1..Len(events') :
                       events'[i] = Event("exit", 1) <=> (i = Len(events') /\ cvRet'.tag = "Err")]_vars

\* Docx -> Pdf asked of an input that is not there, the output path free
C20_Witness ==
    /\ pc = "convert"
    /\ cvConfig.from_format = "Docx" /\ cvConfig.to_format = "Pdf"
    /\ cvConfig.input_path = "gone.pdf" /\ cvConfig.output_path = "out.docx"
    /\ cvRet.tag = "Err" /\ cvRet.err = "UnsupportedConversion"
    /\ cvRet.msg = <<"Docx", "Pdf">>
    /\ disk["out.docx"] = Absent
====
